---- MODULE Spec2Model ----
(***************************************************************************)
(* Model of the DDC/CI transport of monitorswitcher (src/pyddc/macos.py):  *)
(* the packet codec (checksum, packet encoding, reply validation) and the  *)
(* write-then-read exchange with retries (performDDCCommunication).        *)
(*                                                                         *)
(* Two state machines share the module:                                    *)
(*   Spec      - one call of performDDCCommunication, one action per step  *)
(*               of its body, against a bus whose writes and reads return  *)
(*               any status and any reply buffer;                          *)
(*   CodecSpec - the codec as pure functions applied to bounded inputs.    *)
(* FairSpec is Spec with weak fairness: the call is sequential code that   *)
(* keeps running once started.                                             *)
(***************************************************************************)
EXTENDS Integers, Sequences, FiniteSets, TLC

VARIABLES
    \* --- performDDCCommunication: arguments
    send,                \* payload bytes
    read_reply,          \* whether a reply is read
    numOfWriteCycles,
    numOfRetryAttempts,
    \* --- performDDCCommunication: locals
    pc,                  \* position in the body
    packet,              \* encoded packet
    success,
    rep,                 \* reply buffer returned to the caller
    attempt,             \* number of iterations of the retry loop started
    cycle,               \* number of writes done in the current iteration
    \* --- the bus, as observed from outside the call
    wstat,               \* status of the latest write of the current attempt (-1: none yet)
    rstat,               \* status of the read of the current attempt (-1: none yet)
    busRep,              \* buffer delivered by the read of the current attempt
    nWrites,             \* writes issued since the call started
    nReads,              \* reads issued since the call started
    nAttempts,           \* attempts that issued at least their first write_sleep
    nRetrySleeps,        \* retry sleeps taken since the call started
    opLog,               \* sleeps and bus operations of the current attempt, in order
    \* --- read(): the wrapper of the exchange that decodes a feature reply
    readResult,          \* <<>> until read() returned; then <<"None">> or <<"value", cur, max>>
    \* --- codec machine
    cSend,               \* payload handed to the encoder
    cPacket,             \* result of the encoder (<<>> before it ran)
    cReply,              \* buffer handed to reply validation (<<>> before one arrived)
    cValid,              \* verdict of the latest validation
    cChecked,            \* whether cValid is the verdict on cReply
    cLoop,               \* cReply is the encoder's own packet
    cFlipped,            \* 0, or the position of the single byte changed in cReply
    cWasValid,           \* verdict on cReply before that byte was changed
    \* --- display enumeration (getIoregServicesForMatching and the module's main flow)
    ePc,                 \* position in the enumeration
    eRet,                \* status of IORegistryEntryCreateIterator, -1 before the call
    eNext,               \* main flow: number of displays of ddc_displays already read
    eCalled,             \* main flow: channel passed to each call of the exchange
    eSeen,               \* registry nodes the iterator has delivered, in order
    eHeap,               \* the IOregService objects created so far, by identity
    ioregService,        \* identity of the object the walk currently fills in
    serviceLocation,
    ioregServicesForMatching,   \* list of object identities
    eReleased,           \* registry objects released by the finally clause
    displays,            \* list returned by getIoregServicesForMatching
    ddc_displays,        \* displays with a channel
    \* --- monitor operations (monitorboss.impl over the DummyVCP test double)
    current_values,      \* the test double's module-level store: code -> value
    sHeld,               \* monitors whose VCP object is inside its with block
    sTop,                \* the impl function called and its arguments
    sPhase,              \* which of get / set / caps is running (a toggle runs get, then set)
    sPc,                 \* position inside the running function
    sVal,                \* value the VCP method returned to the with block
    sErr,                \* exception leaving the function: <<type, cause>>, <<>> when none
    sResult,             \* value the top-level function returned
    cur_val,             \* toggle_attribute's locals
    new_val,
    sRead,               \* observation: value the store held when the VCP read ran
    sWrote,              \* observation: value this call assigned to the store, -1 when none
    sExt,                \* observation: an external change happened since this call began
    sExtMid,             \* observation: ... between a toggle's read and its write
    sSetVal,             \* observation: code -> value last set through impl and not overwritten since
    sPrev,               \* observation: the call before this one, when it was an undisturbed successful toggle
    \* --- batch commands of the command line (_get_attr, _set_attr, _tog_attr of monitorboss.cli)
    bPc,                 \* position in the command function
    bCmd,                \* the parsed command line: kind, attr, mon (a list), val1, val2
    mons,                \* the monitor numbers _check_mon returned
    bI,                  \* monitors the loop has finished with
    bJ,                  \* elements the list comprehension of _set_attr has produced
    cur_vals,            \* _get_attr's list of values
    new_vals,            \* _set_attr's / _tog_attr's list of results
    bErr,                \* the MonitorBossError that ended the command, <<>> when none
    bOut,                \* the lines printed: <<monitor, value(s)>>
    bLog,                \* observation: reads and writes of monitors and sleeps, in order
    \* --- configuration files (monitorboss.config)
    cfgFiles,            \* path -> content of the file at that path
    cfg_parser,          \* the module-level ConfigParser: what it holds
    cOp,                 \* the config function called last and its path
    cRet,                \* the Config it returned, <<>> when it returned none
    cErr,                \* the MonitorBossError it raised, "" when none
    cN,                  \* number of config functions called so far
    \* capability parser
    capTokens,           \* the tokens of the vcp group of the capability string
    capPos,              \* index of the next token
    capEntries,          \* the entries parsed so far
    capInList,           \* TRUE inside a parenthesized parameter list
    capPc,               \* "off", "parsing", "parsed"
    \* signal_monitor
    gLine,               \* line of impl.py about to run: 0 not called, 133 returned
    gMon,                \* the argument mon
    gLum,                \* lum: <<value, max>> once read, <<>> before
    gErr,                \* the exception that left signal_monitor, <<>> when none
    gLog,                \* the reads, writes and sleeps made, in order
    gBefore              \* the monitor's luminance when signal_monitor was called

exchVars == <<send, read_reply, numOfWriteCycles, numOfRetryAttempts, pc, packet,
              success, rep, attempt, cycle, wstat, rstat, busRep, nWrites, nReads,
              nAttempts, nRetrySleeps, opLog>>
readVars == <<readResult>>
codecVars == <<cSend, cPacket, cReply, cValid, cChecked, cLoop, cFlipped, cWasValid>>
enumVars == <<ePc, eRet, eNext, eCalled, eSeen, eHeap, ioregService, serviceLocation,
              ioregServicesForMatching, eReleased, displays, ddc_displays>>
sessVars == <<current_values, sHeld, sTop, sPhase, sPc, sVal, sErr, sResult, cur_val, new_val,
              sRead, sWrote, sExt, sExtMid, sSetVal, sPrev>>
sessRest == <<sHeld, sTop, sPhase, sPc, sVal, sErr, sResult, cur_val, new_val,
              sRead, sWrote, sExt, sExtMid, sSetVal, sPrev>>
batchVars == <<bPc, bCmd, mons, bI, bJ, cur_vals, new_vals, bErr, bOut, bLog>>
confVars == <<cfgFiles, cfg_parser, cOp, cRet, cErr, cN>>
capVars == <<capTokens, capPos, capEntries, capInList, capPc>>
sigVars == <<gLine, gMon, gLum, gErr, gLog, gBefore>>
vars == <<exchVars, readVars, codecVars, enumVars, sessVars, batchVars, confVars, capVars,
          sigVars>>

\* What the steps of one machine leave alone: the variables of the others.
nonExchVars == <<readVars, codecVars, enumVars, sessVars, batchVars, confVars, capVars,
    sigVars>>
nonReadVars == <<exchVars, codecVars, enumVars, sessVars, batchVars, confVars, capVars,
    sigVars>>
nonCodecVars == <<exchVars, readVars, enumVars, sessVars, batchVars, confVars, capVars,
    sigVars>>
nonEnumVars == <<exchVars, readVars, codecVars, sessVars, batchVars, confVars, capVars,
    sigVars>>
nonSessVars == <<exchVars, readVars, codecVars, enumVars, batchVars, confVars, capVars,
    sigVars>>
nonBatchVars == <<exchVars, readVars, codecVars, enumVars, sessRest, confVars, capVars,
    sigVars>>
nonConfVars == <<exchVars, readVars, codecVars, enumVars, sessVars, batchVars, capVars,
    sigVars>>
nonCapVars == <<exchVars, readVars, codecVars, enumVars, sessVars, batchVars, confVars,
    sigVars>>
nonSigVars == <<exchVars, readVars, codecVars, enumVars, sessRest, batchVars, confVars,
    capVars>>

----------------------------------------------------------------------------
(* Bounds of the model *)

MaxRetryAttempts == 4
MaxWriteCycles == 2
MaxPayloadLen == 3
MaxReplyValue == 1
MaxNodes == 4

----------------------------------------------------------------------------
(* Program constants *)

read_buffer_size == 11
KERN_SUCCESS == 0
ARM64_DDC_DATA_ADDRESS == 81
ARM64_DDC_7BIT_ADDRESS == 55
REPLY_CHECKSUM_SEED == 80

----------------------------------------------------------------------------
(* Bit operations of Python ints on the non-negative values the code uses *)

RECURSIVE Xor(_, _)
Xor(a, b) ==
    IF a = 0 THEN b
    ELSE IF b = 0 THEN a
    ELSE (((a % 2) + (b % 2)) % 2) + (2 * Xor(a \div 2, b \div 2))

RECURSIVE BitOr(_, _)
BitOr(a, b) ==
    IF a = 0 THEN b
    ELSE IF b = 0 THEN a
    ELSE (IF (a % 2) = 1 \/ (b % 2) = 1 THEN 1 ELSE 0) + (2 * BitOr(a \div 2, b \div 2))

ShiftLeft(a, k) == a * (2 ^ k)

Max(a, b) == IF a >= b THEN a ELSE b

Last(s) == s[Len(s)]

----------------------------------------------------------------------------
(* Packet codec *)

\* Variant: the fold stops one position early (range(start, end)).
RECURSIVE checksum_Exclusive(_, _, _, _)
checksum_Exclusive(chk, data, start, end) ==
    IF start >= end THEN chk
    ELSE checksum_Exclusive(Xor(chk, data[start + 1]), data, start + 1, end)

\* checksum(chk, data, start, end): start and end are Python (0-based) indices,
\* both inclusive (range(start, end + 1)).
RECURSIVE checksum(_, _, _, _)
checksum(chk, data, start, end) ==
    IF start > end THEN chk
    ELSE checksum(Xor(chk, data[start + 1]), data, start + 1, end)

\* Variant: outgoing packets are seeded like replies.
EncodeSeed_ReplySeed(snd) == REPLY_CHECKSUM_SEED

\* The seed of an outgoing packet's checksum (the conditional expression passed
\* to checksum at the end of the packet construction).
EncodeSeed(snd) ==
    IF Len(snd) = 1
    THEN ShiftLeft(ARM64_DDC_7BIT_ADDRESS, 1)
    ELSE Xor(ShiftLeft(ARM64_DDC_7BIT_ADDRESS, 1), ARM64_DDC_DATA_ADDRESS)

\* Variant: the header byte carries len(send) instead of len(send) + 1.
Encode_HeaderOffByOne(snd) ==
    LET p0 == <<BitOr(128, Len(snd)), Len(snd)>> \o snd \o <<0>>
    IN  [p0 EXCEPT ![Len(p0)] = checksum(EncodeSeed(snd), p0, 0, Len(p0) - 2)]

\* Packet construction: header, length, payload, checksum placeholder, then the
\* placeholder replaced by the checksum over positions 0 .. len(packet)-2.
Encode(snd) ==
    LET p0 == <<BitOr(128, Len(snd) + 1), Len(snd)>> \o snd \o <<0>>
    IN  [p0 EXCEPT ![Len(p0)] = checksum(EncodeSeed(snd), p0, 0, Len(p0) - 2)]

\* Variant: the fold over the reply leaves out position len(rep) - 2.
Validate_HalfOpen(r) == checksum(REPLY_CHECKSUM_SEED, r, 0, Len(r) - 3) = Last(r)

\* Reply validation: the comparison made after a read that returned status 0.
Validate(r) == checksum(REPLY_CHECKSUM_SEED, r, 0, Len(r) - 2) = Last(r)

----------------------------------------------------------------------------
(* Inputs *)

Byte == 0 .. 255

PayloadBytes == {0, 16, 96, 255}

Payloads == UNION {[1 .. n -> PayloadBytes] : n \in 1 .. MaxPayloadLen}

\* Replies the bus can deliver: read_buffer_size bytes each.  A feature reply
\* with a correct checksum for every value 0 .. MaxReplyValue (scaled so that
\* both value bytes vary), the same with a damaged checksum byte, the same with
\* a damaged value byte, and the all-zero buffer.
ReplyBody(v) == <<110, 136, 2, 0, 16, 0, 0, 100, v, 27 + v>>

GoodReply(v) ==
    LET b == ReplyBody(v) \o <<0>>
    IN  [b EXCEPT ![read_buffer_size] =
            checksum(REPLY_CHECKSUM_SEED, b, 0, read_buffer_size - 2)]

BadChecksumReply(v) ==
    LET g == GoodReply(v) IN [g EXCEPT ![read_buffer_size] = Xor(g[read_buffer_size], 1)]

BadValueReply(v) ==
    LET g == GoodReply(v) IN [g EXCEPT ![read_buffer_size - 1] = Xor(g[read_buffer_size - 1], 64)]

ZeroReply == [i \in 1 .. read_buffer_size |-> 0]

Replies ==
    {GoodReply(v) : v \in 0 .. MaxReplyValue}
    \cup {BadChecksumReply(v) : v \in 0 .. MaxReplyValue}
    \cup {BadValueReply(v) : v \in 0 .. MaxReplyValue}
    \cup {ZeroReply}

\* Status values of the bus primitives: success and one failure code.
IOStatus == {KERN_SUCCESS, 1}

----------------------------------------------------------------------------
(* performDDCCommunication, one action per step of its body *)

Op(name, data, len) == [op |-> name, data |-> data, len |-> len]

SignalIdle ==
    /\ gLine = 0
    /\ gMon = 0
    /\ gLum = <<>>
    /\ gErr = <<>>
    /\ gLog = <<>>
    /\ gBefore = 0

CapsIdle ==
    /\ capTokens = <<>>
    /\ capPos = 0
    /\ capEntries = <<>>
    /\ capInList = FALSE
    /\ capPc = "off"

ConfIdle ==
    /\ cfgFiles = <<>>
    /\ cfg_parser = <<>>
    /\ cOp = <<>>
    /\ cRet = <<>>
    /\ cErr = ""
    /\ cN = 0

BatchIdle ==
    /\ bPc = "off"
    /\ bCmd = <<>>
    /\ mons = <<>>
    /\ bI = 0
    /\ bJ = 0
    /\ cur_vals = <<>>
    /\ new_vals = <<>>
    /\ bErr = <<>>
    /\ bOut = <<>>
    /\ bLog = <<>>

NoOp == [kind |-> "none", mon |-> 0, code |-> 0, val1 |-> 0, val2 |-> 0]
NoToggle == [mon |-> -1, code |-> 0, val1 |-> 0, val2 |-> 0]

\* current_values = {16: 75, 96: 27, 170: 2} (code 18 behaves as code 16 and is left out)
InitialValues == (16 :> 75) @@ (96 :> 27) @@ (170 :> 2)

SessRestFresh ==
    /\ sHeld = {}
    /\ sTop = NoOp
    /\ sPhase = "none"
    /\ sVal = <<>>
    /\ sErr = <<>>
    /\ sResult = <<>>
    /\ cur_val = -1
    /\ new_val = -1
    /\ sRead = -1
    /\ sWrote = -1
    /\ sExt = FALSE
    /\ sExtMid = FALSE
    /\ sSetVal = [c \in {16, 96} |-> -1]
    /\ sPrev = NoToggle

SessFresh ==
    /\ current_values = InitialValues
    /\ SessRestFresh

SessIdle ==
    /\ sPc = "off"
    /\ SessFresh

EnumIdle ==
    /\ ePc = "off"
    /\ eRet = -1
    /\ eNext = 0
    /\ eCalled = <<>>
    /\ eSeen = <<>>
    /\ eHeap = <<>>
    /\ ioregService = 0
    /\ serviceLocation = 0
    /\ ioregServicesForMatching = <<>>
    /\ eReleased = {}
    /\ displays = <<>>
    /\ ddc_displays = <<>>

CodecIdle ==
    /\ cSend = <<>>
    /\ cPacket = <<>>
    /\ cReply = <<>>
    /\ cValid = FALSE
    /\ cChecked = FALSE
    /\ cLoop = FALSE
    /\ cFlipped = 0
    /\ cWasValid = FALSE

\* The arguments of one call; the locals are not yet bound.
Init ==
    /\ send \in {<<16>>, <<96, 0, 16>>}
    /\ read_reply \in BOOLEAN
    /\ numOfWriteCycles \in 0 .. MaxWriteCycles
    /\ numOfRetryAttempts \in 0 .. MaxRetryAttempts
    /\ pc = "start"
    /\ packet = <<>>
    /\ success = FALSE
    /\ rep = <<>>
    /\ attempt = 0
    /\ cycle = 0
    /\ wstat = -1
    /\ rstat = -1
    /\ busRep = <<>>
    /\ nWrites = 0
    /\ nReads = 0
    /\ nAttempts = 0
    /\ nRetrySleeps = 0
    /\ opLog = <<>>
    /\ readResult = <<>>
    /\ CodecIdle
    /\ EnumIdle
    /\ SessIdle
    /\ BatchIdle
    /\ ConfIdle
    /\ CapsIdle
    /\ SignalIdle

\* success = False, the packet construction, rep = [].
Begin ==
    /\ pc = "start"
    /\ success' = FALSE
    /\ packet' = Encode(send)
    /\ rep' = <<>>
    /\ pc' = "loop"
    /\ UNCHANGED <<send, read_reply, numOfWriteCycles, numOfRetryAttempts, attempt,
                   cycle, wstat, rstat, busRep, nWrites, nReads, nAttempts, opLog, nRetrySleeps>>

\* Variant: the write loop runs numOfWriteCycles times, without the floor of 1.
WriteCycles_NoFloor(n) == n

\* Number of iterations of the write loop.
WriteCycles(n) == Max(n, 1)

\* Variant: the retry loop runs one iteration too many.
MoreAttempts_Inclusive == attempt <= numOfRetryAttempts

\* The test of the retry loop: range(0, numOfRetryAttempts) has another element.
MoreAttempts == attempt < numOfRetryAttempts

\* for _ in range(0, numOfRetryAttempts): one more iteration, up to the test of
\* the write loop.
NextAttempt ==
    /\ pc = "loop"
    /\ MoreAttempts
    /\ attempt' = attempt + 1
    /\ cycle' = 0
    /\ pc' = IF 0 < WriteCycles(numOfWriteCycles) THEN "write_sleep" ELSE "clear"
    /\ wstat' = -1
    /\ rstat' = -1
    /\ busRep' = <<>>
    /\ opLog' = <<>>
    /\ UNCHANGED <<send, read_reply, numOfWriteCycles, numOfRetryAttempts, packet,
                   success, rep, nWrites, nReads, nAttempts, nRetrySleeps>>

\* The retry loop is exhausted: return success, rep.
Exhausted ==
    /\ pc = "loop"
    /\ ~MoreAttempts
    /\ pc' = "done"
    /\ UNCHANGED <<send, read_reply, numOfWriteCycles, numOfRetryAttempts, packet,
                   success, rep, attempt, cycle, wstat, rstat, busRep, nWrites,
                   nReads, nAttempts, opLog, nRetrySleeps>>

\* time.sleep(writeSleepTime)
WriteSleep ==
    /\ pc = "write_sleep"
    /\ opLog' = Append(opLog, Op("write_sleep", <<>>, 0))
    /\ nAttempts' = IF cycle = 0 THEN nAttempts + 1 ELSE nAttempts
    /\ pc' = "write"
    /\ UNCHANGED <<send, read_reply, numOfWriteCycles, numOfRetryAttempts, packet,
                   success, rep, attempt, cycle, wstat, rstat, busRep, nWrites, nReads, nRetrySleeps>>

\* success = IOAVServiceWriteI2C(..., packet, len(packet)) == 0, and the test of
\* the write loop.
Write(st) ==
    /\ pc = "write"
    /\ success' = (st = 0)
    /\ wstat' = st
    /\ nWrites' = nWrites + 1
    /\ opLog' = Append(opLog, Op("write", packet, Len(packet)))
    /\ cycle' = cycle + 1
    /\ pc' = IF cycle + 1 < WriteCycles(numOfWriteCycles) THEN "write_sleep" ELSE "clear"
    /\ UNCHANGED <<send, read_reply, numOfWriteCycles, numOfRetryAttempts, packet,
                   rep, attempt, rstat, busRep, nReads, nAttempts, nRetrySleeps>>

\* rep = [] and the test of read_reply.
ClearReply ==
    /\ pc = "clear"
    /\ rep' = <<>>
    /\ pc' = IF read_reply THEN "read_sleep" ELSE "check"
    /\ UNCHANGED <<send, read_reply, numOfWriteCycles, numOfRetryAttempts, packet,
                   success, attempt, cycle, wstat, rstat, busRep, nWrites, nReads,
                   nAttempts, opLog, nRetrySleeps>>

\* time.sleep(readSleepTime)
ReadSleep ==
    /\ pc = "read_sleep"
    /\ opLog' = Append(opLog, Op("read_sleep", <<>>, 0))
    /\ pc' = "read"
    /\ UNCHANGED <<send, read_reply, numOfWriteCycles, numOfRetryAttempts, packet,
                   success, rep, attempt, cycle, wstat, rstat, busRep, nWrites, nReads,
                   nAttempts, nRetrySleeps>>

\* Variant: the buffer of a read that failed is dropped instead of kept in rep.
Read_ReplyOnlyOnSuccess(st, bytes) ==
    /\ pc = "read"
    /\ rep' = IF st = 0 THEN bytes ELSE rep
    /\ success' = IF st = 0 THEN Validate(bytes) ELSE success
    /\ rstat' = st
    /\ busRep' = bytes
    /\ nReads' = nReads + 1
    /\ opLog' = Append(opLog, Op("read", <<>>, read_buffer_size))
    /\ pc' = "check"
    /\ UNCHANGED <<send, read_reply, numOfWriteCycles, numOfRetryAttempts, packet,
                   attempt, cycle, wstat, nWrites, nAttempts, nRetrySleeps>>

\* ret, rep = IOAVServiceReadI2C(..., read_buffer_size); if ret == 0: success =
\* checksum(0x50, rep, 0, len(rep) - 2) == rep[-1].  The buffer is assigned to
\* rep whatever the status; success keeps the write's value when ret != 0.
Read(st, bytes) ==
    /\ pc = "read"
    /\ rep' = bytes
    /\ success' = IF st = 0 THEN Validate(bytes) ELSE success
    /\ rstat' = st
    /\ busRep' = bytes
    /\ nReads' = nReads + 1
    /\ opLog' = Append(opLog, Op("read", <<>>, read_buffer_size))
    /\ pc' = "check"
    /\ UNCHANGED <<send, read_reply, numOfWriteCycles, numOfRetryAttempts, packet,
                   attempt, cycle, wstat, nWrites, nAttempts, nRetrySleeps>>

\* Variant: a successful attempt does not return; the loop goes on.
ReturnSuccess_FallThrough ==
    /\ pc = "check"
    /\ success
    /\ pc' = "loop"
    /\ UNCHANGED <<send, read_reply, numOfWriteCycles, numOfRetryAttempts, packet,
                   success, rep, attempt, cycle, wstat, rstat, busRep, nWrites,
                   nReads, nAttempts, opLog, nRetrySleeps>>

\* if success: return success, rep
ReturnSuccess ==
    /\ pc = "check"
    /\ success
    /\ pc' = "done"
    /\ UNCHANGED <<send, read_reply, numOfWriteCycles, numOfRetryAttempts, packet,
                   success, rep, attempt, cycle, wstat, rstat, busRep, nWrites,
                   nReads, nAttempts, opLog, nRetrySleeps>>

\* time.sleep(retrySleepTime), reached when success is false.
RetrySleep ==
    /\ pc = "check"
    /\ ~success
    /\ opLog' = Append(opLog, Op("retry_sleep", <<>>, 0))
    /\ pc' = "loop"
    /\ nRetrySleeps' = nRetrySleeps + 1
    /\ UNCHANGED <<send, read_reply, numOfWriteCycles, numOfRetryAttempts, packet,
                   success, rep, attempt, cycle, wstat, rstat, busRep, nWrites,
                   nReads, nAttempts>>

\* Variant: read() decodes whatever reply the exchange handed back, also after
\* an exchange that did not succeed.
ReadReturn_DecodeAlways ==
    /\ pc = "done"
    /\ read_reply
    /\ Len(send) = 1
    /\ readResult = <<>>
    /\ readResult' = IF success \/ rep # <<>>
                     THEN <<"value", rep[9] * 256 + rep[10], rep[7] * 256 + rep[8]>>
                     ELSE <<"None">>

\* read(): the exchange was called with send = [command] and read_reply = True;
\* on success val_max = reply[6] * 256 + reply[7], val_cur = reply[8] * 256 +
\* reply[9] and (val_cur, val_max) is returned, else None.  (Python indices are
\* 0-based, the model's sequences 1-based; indexing a reply shorter than ten
\* bytes raises IndexError.)
ReadReturn ==
    /\ pc = "done"
    /\ read_reply
    /\ Len(send) = 1
    /\ readResult = <<>>
    /\ readResult' = IF success
                     THEN IF Len(rep) >= 9 + 1
                          THEN <<"value", rep[8 + 1] * 256 + rep[9 + 1],
                                          rep[6 + 1] * 256 + rep[7 + 1]>>
                          ELSE <<"IndexError">>
                     ELSE <<"None">>

Next ==
    \/ Begin /\ UNCHANGED nonExchVars
    \/ NextAttempt /\ UNCHANGED nonExchVars
    \/ Exhausted /\ UNCHANGED nonExchVars
    \/ WriteSleep /\ UNCHANGED nonExchVars
    \/ (\E st \in IOStatus : Write(st)) /\ UNCHANGED nonExchVars
    \/ ClearReply /\ UNCHANGED nonExchVars
    \/ ReadSleep /\ UNCHANGED nonExchVars
    \/ (\E st \in IOStatus, bytes \in Replies : Read(st, bytes)) /\ UNCHANGED nonExchVars
    \/ ReturnSuccess /\ UNCHANGED nonExchVars
    \/ RetrySleep /\ UNCHANGED nonExchVars
    \/ ReadReturn /\ UNCHANGED nonReadVars

Spec == Init /\ [][Next]_vars

\* The call is straight-line sequential code: a step that can be taken is taken.
FairSpec == Spec /\ WF_vars(Next)

----------------------------------------------------------------------------
(* Properties of the exchange *)

Returned == pc = "done"

\* The number of writes one attempt is specified to make.
CyclesPerAttempt == IF numOfWriteCycles > 1 THEN numOfWriteCycles ELSE 1

\* C1: whenever the exchange called with expect_reply = true returns success,
\* the read of the returning attempt had status 0 and its reply passes checksum
\* validation; an attempt whose read failed is never reported as success.
C1_SuccessNeedsGoodRead ==
    (Returned /\ success /\ read_reply) =>
        (rstat = 0 /\ rep = busRep /\ Validate(rep))

\* C2: whenever the exchange returns success, the write of the returning
\* attempt was accepted by the bus (status 0), also when the read that follows
\* delivers a reply with a valid checksum.
C2_SuccessNeedsGoodWrite ==
    (Returned /\ success) => wstat = 0

\* C3: when attempts 1..k-1 fail and attempt k succeeds, the exchange returns
\* success with the reply read in attempt k, and no write, read or further
\* attempt follows attempt k.
C3_FirstSuccessReturnsItsReply ==
    /\ [](Returned /\ success =>
            /\ attempt >= 1
            /\ attempt <= numOfRetryAttempts
            /\ nAttempts = attempt
            /\ nRetrySleeps = attempt - 1
            /\ nWrites = attempt * CyclesPerAttempt
            /\ nReads = (IF read_reply THEN attempt ELSE 0)
            /\ rep = (IF read_reply THEN busRep ELSE <<>>))
    /\ [][(pc = "check" /\ success) =>
            (Returned' /\ success' /\ rep' = rep /\ attempt' = attempt
             /\ nWrites' = nWrites /\ nReads' = nReads
             /\ nRetrySleeps' = nRetrySleeps)]_vars
    /\ [][Returned => UNCHANGED exchVars]_vars

C3_Witness ==
    /\ Returned /\ success /\ read_reply
    /\ attempt = 3 /\ numOfRetryAttempts = 4
    /\ nRetrySleeps = 2
    /\ rep = GoodReply(1)

\* C4: when every attempt fails, the exchange makes exactly retry_attempts
\* attempts and returns failure with the reply obtained in the last attempt
\* (empty when the last attempt read nothing or retry_attempts is 0).
C4_ExhaustionReturnsLastReply ==
    (Returned /\ ~success) =>
        /\ attempt = numOfRetryAttempts
        /\ nAttempts = numOfRetryAttempts
        /\ nRetrySleeps = numOfRetryAttempts
        /\ nWrites = numOfRetryAttempts * CyclesPerAttempt
        /\ rep = (IF read_reply /\ numOfRetryAttempts > 0 THEN busRep ELSE <<>>)
        /\ (read_reply /\ numOfRetryAttempts > 0) => Len(rep) = 11

C4_Witness ==
    /\ Returned /\ ~success /\ read_reply
    /\ numOfRetryAttempts = 3 /\ nAttempts = 3
    /\ rstat # 0
    /\ rep = BadChecksumReply(1)

\* The operations one attempt is specified to make, in order: the write_sleep /
\* write pairs, then read_sleep and one read of 11 bytes when a reply is
\* expected, then the retry_sleep of a failed attempt.
C9_Writes ==
    [i \in 1 .. 2 * CyclesPerAttempt |->
        IF i % 2 = 1
        THEN [op |-> "write_sleep", data |-> <<>>, len |-> 0]
        ELSE [op |-> "write", data |-> Encode(send), len |-> Len(send) + 3]]

C9_Reads ==
    IF read_reply
    THEN <<[op |-> "read_sleep", data |-> <<>>, len |-> 0],
           [op |-> "read", data |-> <<>>, len |-> 11]>>
    ELSE <<>>

C9_Attempt == C9_Writes \o C9_Reads

C9_FailedAttempt == C9_Attempt \o <<[op |-> "retry_sleep", data |-> <<>>, len |-> 0]>>

\* C9: within every attempt the operations are max(write_cycles,1) writes of the
\* same encoded packet, each preceded by a write_sleep; then, only when a reply
\* is expected, one read_sleep and one read of 11 bytes; without an expected
\* reply no read is made and the returned reply is empty; a failed attempt ends
\* with one retry_sleep before the next attempt starts.
C9_AttemptOrder ==
    /\ Len(opLog) <= Len(C9_FailedAttempt)
    /\ opLog = SubSeq(C9_FailedAttempt, 1, Len(opLog))
    /\ pc = "check" => opLog = C9_Attempt
    /\ (Returned /\ success) => opLog = C9_Attempt
    /\ (pc = "loop" /\ attempt > 0) => opLog = C9_FailedAttempt
    /\ (Returned /\ ~success /\ attempt > 0) => opLog = C9_FailedAttempt
    /\ ~read_reply => (nReads = 0 /\ (Returned => rep = <<>>))

C9_Witness ==
    /\ pc = "loop" /\ attempt = 2 /\ read_reply /\ numOfWriteCycles = 2
    /\ Len(opLog) = 7

\* C10: every call terminates, whatever the bus does: it runs until the first
\* successful attempt or until retry_attempts attempts are exhausted, with at
\* most retry_attempts * max(write_cycles,1) writes and at most retry_attempts
\* reads.
C10_Terminates ==
    /\ <>Returned
    /\ [](/\ nAttempts <= numOfRetryAttempts
          /\ nWrites <= numOfRetryAttempts * CyclesPerAttempt
          /\ nReads <= numOfRetryAttempts)
    /\ [](Returned => (success \/ nAttempts = numOfRetryAttempts))
    /\ [][~Returned => (Returned' => (success' \/ attempt' = numOfRetryAttempts))]_vars

C10_Witness ==
    /\ Returned /\ ~success
    /\ numOfRetryAttempts = 4 /\ numOfWriteCycles = 2
    /\ nWrites = 8 /\ nReads = 4

\* C11: a feature read returns a value only when the exchange succeeded, and
\* then current = reply[8]*256+reply[9] and max = reply[6]*256+reply[7] of the
\* reply the bus delivered; when the exchange did not succeed the read reports
\* failure (None) and decodes nothing.
C11_ReadDecodesOnlyOnSuccess ==
    readResult # <<>> =>
        /\ Returned
        /\ success =>
              /\ Len(busRep) = 11
              /\ readResult = <<"value", busRep[9] * 256 + busRep[10],
                                         busRep[7] * 256 + busRep[8]>>
        /\ ~success => readResult = <<"None">>

C11_Witness ==
    /\ readResult = <<"value", 284, 100>>
    /\ success
    /\ attempt = 2

----------------------------------------------------------------------------
(* The codec applied to bounded inputs *)

ExchIdle ==
    /\ send = <<>>
    /\ read_reply = FALSE
    /\ numOfWriteCycles = 0
    /\ numOfRetryAttempts = 0
    /\ pc = "off"
    /\ packet = <<>>
    /\ success = FALSE
    /\ rep = <<>>
    /\ attempt = 0
    /\ cycle = 0
    /\ wstat = -1
    /\ rstat = -1
    /\ busRep = <<>>
    /\ nWrites = 0
    /\ nReads = 0
    /\ nAttempts = 0
    /\ nRetrySleeps = 0
    /\ opLog = <<>>
    /\ readResult = <<>>

\* Bit patterns by which CodecFlip changes a byte.
FlipMasks == {1, 64, 255}

\* Either a payload for the encoder or a buffer read from the bus.
CodecInit ==
    /\ \/ cSend \in Payloads /\ cReply = <<>>
       \/ cSend = <<>> /\ cReply \in Replies
    /\ cPacket = <<>>
    /\ cValid = FALSE
    /\ cChecked = FALSE
    /\ cLoop = FALSE
    /\ cFlipped = 0
    /\ cWasValid = FALSE
    /\ ExchIdle
    /\ EnumIdle
    /\ SessIdle
    /\ BatchIdle
    /\ ConfIdle
    /\ CapsIdle
    /\ SignalIdle

\* The packet construction applied to cSend.
CodecEncode ==
    /\ cSend # <<>>
    /\ cPacket = <<>>
    /\ cPacket' = Encode(cSend)
    /\ UNCHANGED <<cSend, cReply, cValid, cChecked, cLoop, cFlipped, cWasValid>>

\* The encoder's packet is handed to reply validation.
CodecLoopback ==
    /\ cPacket # <<>>
    /\ ~cLoop
    /\ cFlipped = 0
    /\ cReply' = cPacket
    /\ cLoop' = TRUE
    /\ cChecked' = FALSE
    /\ UNCHANGED <<cSend, cPacket, cValid, cFlipped, cWasValid>>

\* The checksum comparison applied to cReply.
CodecValidate ==
    /\ cReply # <<>>
    /\ ~cChecked
    /\ cValid' = Validate(cReply)
    /\ cChecked' = TRUE
    /\ UNCHANGED <<cSend, cPacket, cReply, cLoop, cFlipped, cWasValid>>

\* One byte of a validated buffer changes (at any position, the last included)
\* and the buffer is validated again.
CodecFlip(i, m) ==
    /\ cChecked
    /\ cFlipped = 0
    /\ i \in 1 .. Len(cReply)
    /\ cReply' = [cReply EXCEPT ![i] = Xor(cReply[i], m)]
    /\ cFlipped' = i
    /\ cWasValid' = cValid
    /\ cValid' = Validate(cReply')
    /\ UNCHANGED <<cSend, cPacket, cChecked, cLoop>>

CodecNext ==
    \/ CodecEncode /\ UNCHANGED nonCodecVars
    \/ CodecLoopback /\ UNCHANGED nonCodecVars
    \/ CodecValidate /\ UNCHANGED nonCodecVars
    \/ (\E i \in 1 .. read_buffer_size, m \in FlipMasks : CodecFlip(i, m)) /\ UNCHANGED nonCodecVars

CodecSpec == CodecInit /\ [][CodecNext]_vars

----------------------------------------------------------------------------
(* Properties of the codec *)

\* XOR of x with every byte of s.
RECURSIVE XorAll(_, _)
XorAll(x, s) == IF s = <<>> THEN x ELSE XorAll(Xor(x, Head(s)), Tail(s))

\* Every byte of s but the last.
Front(s) == SubSeq(s, 1, Len(s) - 1)

LoopbackVerdict == cLoop /\ cChecked /\ cFlipped = 0

\* C5 (as stated): for any valid payload, reply validation of the packet produced
\* by encode succeeds.
C5_ValidateAcceptsEncode ==
    LoopbackVerdict => cValid

\* C5 (amended): for any valid payload the packet produced by encode carries a
\* checksum that is consistent under the encoder's own seed (0x6E for a 1-byte
\* payload, 0x3F for a longer one); reply validation, whose seed is 0x50,
\* rejects that packet.
C5_EncodeConsistentUnderOwnSeed ==
    /\ cPacket # <<>> =>
          XorAll(IF Len(cSend) = 1 THEN 110 ELSE 63, Front(cPacket)) = Last(cPacket)
    /\ LoopbackVerdict => ~cValid

C5_Witness ==
    /\ LoopbackVerdict
    /\ Len(cSend) = 3
    /\ cReply = cPacket

\* C6: for any byte sequence that passes checksum validation, changing the value
\* of any single byte except the last makes validation reject it.
C6_SingleByteChangeRejected ==
    /\ (cChecked /\ cValid) =>
          \A i \in 1 .. Len(cReply) - 1 : \A v \in Byte \ {cReply[i]} :
              ~Validate([cReply EXCEPT ![i] = v])
    /\ (cWasValid /\ cFlipped \in 1 .. Len(cReply) - 1) => ~cValid

C6_Witness ==
    /\ cWasValid
    /\ cFlipped = Len(cReply) - 1
    /\ ~cValid

\* C7: for a payload of length n the packet has n+3 bytes: 0x80|(n+1), n, the
\* payload in order, and the XOR of the seed with every preceding byte, the seed
\* being 0x37<<1 for n = 1 and (0x37<<1) XOR 0x51 for n >= 2.
C7_PacketLayout ==
    cPacket # <<>> =>
        LET n == Len(cSend) IN
        /\ Len(cPacket) = n + 3
        /\ cPacket[1] = 128 + n + 1
        /\ cPacket[2] = n
        /\ \A i \in 1 .. n : cPacket[2 + i] = cSend[i]
        /\ cPacket[n + 3] = XorAll(IF n = 1 THEN 110 ELSE 63, SubSeq(cPacket, 1, n + 2))
        /\ cPacket[n + 3] \in Byte

C7_Witness ==
    /\ cPacket # <<>>
    /\ cSend = <<96, 0, 16>>
    /\ cPacket[1] = 132
    /\ Len(cPacket) = 6

\* C8 (as stated): a reply is accepted exactly when the XOR fold of seed 0x50 over
\* positions 0 up to but excluding len-2 equals the final byte.
C8_FoldExcludesLenMinus2 ==
    (cChecked /\ Len(cReply) >= 2) =>
        (cValid <=> XorAll(80, SubSeq(cReply, 1, Len(cReply) - 2)) = Last(cReply))

\* C8 (amended): a reply is accepted exactly when the XOR fold of seed 0x50 over
\* positions 0 up to and including len-2, that is every byte but the final one,
\* equals the final byte.
C8_FoldCoversAllButLast ==
    cChecked =>
        (cValid <=> XorAll(80, Front(cReply)) = Last(cReply))

C8_Witness ==
    /\ cChecked /\ cValid
    /\ cFlipped = 0
    /\ cReply[Len(cReply) - 1] # 0

----------------------------------------------------------------------------
(* Display enumeration: getIoregServicesForMatching and the filter that follows *)

keyDCPAVServiceProxy == "DCPAVServiceProxy"
keysFramebuffer == {"AppleCLCD2", "IOMobileFramebufferShim"}

\* A registry node as the walk sees it: `contains` is the key its name contains
\* as a substring ("" when none), `exact` whether the name equals that key,
\* `location` its Location property ("" when it has none), `nameOk` whether
\* IORegistryEntryGetName succeeds on it.
RegNode(contains, exact, location, nameOk) ==
    [contains |-> contains, exact |-> exact, location |-> location, nameOk |-> nameOk]

RegNodes ==
    { RegNode("AppleCLCD2", TRUE, "", TRUE),
      RegNode("DCPAVServiceProxy", TRUE, "External", TRUE),
      RegNode("DCPAVServiceProxy", TRUE, "Internal", TRUE),
      RegNode("DCPAVServiceProxy", TRUE, "", TRUE),
      RegNode("AppleCLCD2", FALSE, "", TRUE),
      RegNode("", FALSE, "", TRUE),
      RegNode("AppleCLCD2", TRUE, "", FALSE) }

\* IOregService(): the fields the enumeration reads or writes.  0 stands for None.
NewIOregService == [serviceLocation |-> 0, location |-> "", service |-> 0]

\* for interest in interests: if interest in name
OfInterest(n) == n.contains \in ({keyDCPAVServiceProxy} \cup keysFramebuffer)

\* setIORegServiceDCPAVServiceProxy: the object after the call; the channel
\* created for `entry` is identified by the entry.
setIORegServiceDCPAVServiceProxy(entry, n, obj) ==
    IF n.location # ""
    THEN IF n.location = "External"
         THEN [obj EXCEPT !.location = n.location, !.service = entry]
         ELSE [obj EXCEPT !.location = n.location]
    ELSE obj

EnumInit ==
    /\ ePc = "start"
    /\ eRet = -1
    /\ eNext = 0
    /\ eCalled = <<>>
    /\ eSeen = <<>>
    /\ eHeap = <<>>
    /\ ioregService = 0
    /\ serviceLocation = 0
    /\ ioregServicesForMatching = <<>>
    /\ eReleased = {}
    /\ displays = <<>>
    /\ ddc_displays = <<>>
    /\ ExchIdle
    /\ CodecIdle
    /\ SessIdle
    /\ BatchIdle
    /\ ConfIdle
    /\ CapsIdle
    /\ SignalIdle

\* The finally clause, then the return of the list.
EnumReturn(list) ==
    /\ eReleased' = {"ioregRoot", "iterator"}
    /\ displays' = list
    /\ ePc' = "returned"

\* Variant: a failure to create the iterator is raised to the caller.
EnumOpen_RaiseOnFailure(ret) ==
    /\ ePc = "start"
    /\ eRet' = ret
    /\ UNCHANGED <<eNext, eCalled>>
    /\ serviceLocation' = 0
    /\ ioregServicesForMatching' = <<>>
    /\ IF ret # KERN_SUCCESS
       THEN /\ ePc' = "raised"
            /\ eReleased' = {"ioregRoot", "iterator"}
            /\ UNCHANGED <<eHeap, ioregService, displays>>
       ELSE /\ eHeap' = <<NewIOregService>>
            /\ ioregService' = 1
            /\ ePc' = "walk"
            /\ UNCHANGED <<eReleased, displays>>
    /\ UNCHANGED <<eSeen, ddc_displays>>

\* serviceLocation = 0 ... ioregService = IOregService(): the iterator is created;
\* when that fails the empty list is returned.
EnumOpen(ret) ==
    /\ ePc = "start"
    /\ eRet' = ret
    /\ UNCHANGED <<eNext, eCalled>>
    /\ serviceLocation' = 0
    /\ ioregServicesForMatching' = <<>>
    /\ IF ret # KERN_SUCCESS
       THEN /\ EnumReturn(<<>>)
            /\ UNCHANGED <<eHeap, ioregService>>
       ELSE /\ eHeap' = <<NewIOregService>>
            /\ ioregService' = 1
            /\ ePc' = "walk"
            /\ UNCHANGED <<eReleased, displays>>
    /\ UNCHANGED <<eSeen, ddc_displays>>

\* ioregIterateToNextObjectOfInterest: an entry whose name matches no interest
\* is passed over.
EnumSkip(n) ==
    /\ ePc = "walk"
    /\ UNCHANGED <<eRet, eNext, eCalled>>
    /\ Len(eSeen) < MaxNodes
    /\ n.nameOk
    /\ ~OfInterest(n)
    /\ eSeen' = Append(eSeen, n)
    /\ UNCHANGED <<ePc, eHeap, ioregService, serviceLocation, ioregServicesForMatching,
                   eReleased, displays, ddc_displays>>

\* ioregIterateToNextObjectOfInterest returns None because IORegistryEntryGetName
\* failed on the next entry: the walk ends and the list is returned.
EnumBadName(n) ==
    /\ ePc = "walk"
    /\ UNCHANGED <<eRet, eNext, eCalled>>
    /\ Len(eSeen) < MaxNodes
    /\ ~n.nameOk
    /\ eSeen' = Append(eSeen, n)
    /\ EnumReturn(ioregServicesForMatching)
    /\ UNCHANGED <<eHeap, ioregService, serviceLocation, ioregServicesForMatching,
                   ddc_displays>>

\* IOIteratorNext returns MACH_PORT_NULL: the walk ends and the list is returned.
EnumExhausted ==
    /\ ePc = "walk"
    /\ UNCHANGED <<eRet, eNext, eCalled>>
    /\ EnumReturn(ioregServicesForMatching)
    /\ UNCHANGED <<eSeen, eHeap, ioregService, serviceLocation,
                   ioregServicesForMatching, ddc_displays>>

\* if objectOfInterest.name in keysFramebuffer: a new object, the next index.
EnumFramebuffer(n) ==
    /\ ePc = "walk"
    /\ UNCHANGED <<eRet, eNext, eCalled>>
    /\ Len(eSeen) < MaxNodes
    /\ n.nameOk
    /\ OfInterest(n)
    /\ n.exact /\ n.contains \in keysFramebuffer
    /\ eSeen' = Append(eSeen, n)
    /\ serviceLocation' = serviceLocation + 1
    /\ eHeap' = Append(eHeap, [NewIOregService EXCEPT !.serviceLocation = serviceLocation + 1])
    /\ ioregService' = Len(eHeap) + 1
    /\ UNCHANGED <<ePc, ioregServicesForMatching, eReleased, displays, ddc_displays>>

\* elif objectOfInterest.name == keyDCPAVServiceProxy: the current object is
\* filled in and appended to the list.
EnumProxy(n) ==
    /\ ePc = "walk"
    /\ UNCHANGED <<eRet, eNext, eCalled>>
    /\ Len(eSeen) < MaxNodes
    /\ n.nameOk
    /\ OfInterest(n)
    /\ ~(n.exact /\ n.contains \in keysFramebuffer)
    /\ n.exact /\ n.contains = keyDCPAVServiceProxy
    /\ eSeen' = Append(eSeen, n)
    /\ eHeap' = [eHeap EXCEPT ![ioregService] =
                    setIORegServiceDCPAVServiceProxy(Len(eSeen) + 1, n, eHeap[ioregService])]
    /\ ioregServicesForMatching' = Append(ioregServicesForMatching, ioregService)
    /\ UNCHANGED <<ePc, ioregService, serviceLocation, eReleased, displays, ddc_displays>>

\* An object of interest (its name contains a key) whose name equals none of
\* the keys: neither branch of the loop body applies.
EnumNoBranch(n) ==
    /\ ePc = "walk"
    /\ UNCHANGED <<eRet, eNext, eCalled>>
    /\ Len(eSeen) < MaxNodes
    /\ n.nameOk
    /\ OfInterest(n)
    /\ ~n.exact
    /\ eSeen' = Append(eSeen, n)
    /\ UNCHANGED <<ePc, eHeap, ioregService, serviceLocation, ioregServicesForMatching,
                   eReleased, displays, ddc_displays>>

\* Variant: every handle is kept.
WithService_All(list) == list

\* [d for d in displays if d.service is not None]
WithService(list) == SelectSeq(list, LAMBDA d : eHeap[d].service # 0)

\* Variant: the list is taken as returned, without the filter.
FilterDisplays_Unfiltered ==
    /\ ePc = "returned"
    /\ UNCHANGED <<eRet, eNext, eCalled>>
    /\ ddc_displays' = displays
    /\ ePc' = "filtered"
    /\ UNCHANGED <<eSeen, eHeap, ioregService, serviceLocation, ioregServicesForMatching,
                   eReleased, displays>>

\* displays = getIoregServicesForMatching(); ddc_displays = [...]
FilterDisplays ==
    /\ ePc = "returned"
    /\ UNCHANGED <<eRet, eNext, eCalled>>
    /\ ddc_displays' = WithService(displays)
    /\ ePc' = "filtered"
    /\ UNCHANGED <<eSeen, eHeap, ioregService, serviceLocation, ioregServicesForMatching,
                   eReleased, displays>>

\* for d in ddc_displays: for f in features: read(d.service, ...): the next
\* display is read; performDDCCommunication asserts ioavservice is not None.
MainRead ==
    /\ ePc = "filtered"
    /\ eNext < Len(ddc_displays)
    /\ eNext' = eNext + 1
    /\ eCalled' = Append(eCalled, eHeap[ddc_displays[eNext + 1]].service)
    /\ ePc' = IF eHeap[ddc_displays[eNext + 1]].service = 0
              THEN "AssertionError" ELSE "filtered"
    /\ UNCHANGED <<eRet, eSeen, eHeap, ioregService, serviceLocation,
                   ioregServicesForMatching, eReleased, displays, ddc_displays>>

EnumNext ==
    \/ (\E ret \in IOStatus : EnumOpen(ret)) /\ UNCHANGED nonEnumVars
    \/ (\E n \in RegNodes : EnumSkip(n)) /\ UNCHANGED nonEnumVars
    \/ (\E n \in RegNodes : EnumBadName(n)) /\ UNCHANGED nonEnumVars
    \/ EnumExhausted /\ UNCHANGED nonEnumVars
    \/ (\E n \in RegNodes : EnumFramebuffer(n)) /\ UNCHANGED nonEnumVars
    \/ (\E n \in RegNodes : EnumProxy(n)) /\ UNCHANGED nonEnumVars
    \/ (\E n \in RegNodes : EnumNoBranch(n)) /\ UNCHANGED nonEnumVars
    \/ FilterDisplays /\ UNCHANGED nonEnumVars
    \/ MainRead /\ UNCHANGED nonEnumVars

EnumSpec == EnumInit /\ [][EnumNext]_vars

----------------------------------------------------------------------------
(* Properties of the enumeration *)

IsFramebufferNode(n) == n.nameOk /\ n.exact /\ n.contains \in {"AppleCLCD2", "IOMobileFramebufferShim"}
IsProxyNode(n) == n.nameOk /\ n.exact /\ n.contains = "DCPAVServiceProxy"

\* Positions in eSeen of the framebuffer nodes.
FramebufferPositions == {i \in 1 .. Len(eSeen) : IsFramebufferNode(eSeen[i])}

\* The number of framebuffer nodes met up to position i: the index the walk is
\* specified to give the framebuffer at position i.
OrdinalOf(i) == Cardinality({j \in FramebufferPositions : j <= i})

\* The proxy nodes of the framebuffer at position i: those met after it and
\* before the next framebuffer.
ProxiesOf(i) ==
    {j \in i + 1 .. Len(eSeen) :
        /\ IsProxyNode(eSeen[j])
        /\ \A k \in i + 1 .. j : ~IsFramebufferNode(eSeen[k])}

Enumerated == ePc \in {"filtered", "AssertionError"}

\* C19: every handle the enumeration returns has a channel attached; a
\* framebuffer none of whose proxy nodes has Location "External" contributes no
\* handle, and no handle with a null channel is returned.
C19_ReturnedHandlesHaveChannel ==
    Enumerated =>
        /\ \A i \in 1 .. Len(ddc_displays) : eHeap[ddc_displays[i]].service # 0
        /\ \A f \in FramebufferPositions :
              (\A j \in ProxiesOf(f) : eSeen[j].location # "External") =>
                  \A i \in 1 .. Len(ddc_displays) :
                      eHeap[ddc_displays[i]].serviceLocation # OrdinalOf(f)

C19_Witness ==
    /\ Enumerated
    /\ Len(eSeen) = 4
    /\ IsFramebufferNode(eSeen[1]) /\ IsProxyNode(eSeen[2]) /\ eSeen[2].location = "Internal"
    /\ IsFramebufferNode(eSeen[3]) /\ IsProxyNode(eSeen[4]) /\ eSeen[4].location = "External"
    /\ Len(displays) = 2
    /\ Len(ddc_displays) = 1

\* C20: the framebuffer nodes get the indices 1, 2, 3, ... in the order the walk
\* meets them, and the returned handles are in strictly increasing index order,
\* for every sequence of framebuffer and proxy nodes.
C20_StrictlyIncreasingIndices ==
    /\ ePc \in {"walk", "returned", "filtered"} =>
          /\ serviceLocation = Cardinality(FramebufferPositions)
          /\ \A h \in 2 .. Len(eHeap) : eHeap[h].serviceLocation = h - 1
    /\ Enumerated =>
          \A i, j \in 1 .. Len(ddc_displays) :
              i < j => eHeap[ddc_displays[i]].serviceLocation
                         < eHeap[ddc_displays[j]].serviceLocation

\* C21: when the registry iterator cannot be opened, the enumeration returns
\* an empty list without raising, walks nothing, and the registry root is
\* released all the same.
C21_OpenFailureGivesEmptyList ==
    (eRet # -1 /\ eRet # KERN_SUCCESS) =>
        /\ ePc \in {"returned", "filtered"}
        /\ displays = <<>>
        /\ eSeen = <<>>
        /\ "ioregRoot" \in eReleased
        /\ ePc = "filtered" => ddc_displays = <<>>

C21_Witness ==
    /\ eRet = 1
    /\ ePc = "filtered"
    /\ displays = <<>>
    /\ eReleased = {"ioregRoot", "iterator"}

\* C27: each framebuffer node contributes at most one handle: the returned
\* list never holds the same handle twice and never a handle without a
\* location index, for every sequence of framebuffer and proxy nodes.
C27_OneHandlePerFramebuffer ==
    ePc \in {"returned", "filtered"} =>
        /\ \A i, j \in 1 .. Len(displays) : i # j => displays[i] # displays[j]
        /\ \A i \in 1 .. Len(displays) : eHeap[displays[i]].serviceLocation # 0

\* C28: in the main flow the exchange is only called with a channel that is
\* not None, so its opening assertion never fails.
C28_ExchangeGetsAChannel ==
    /\ ePc # "AssertionError"
    /\ \A i \in 1 .. Len(eCalled) : eCalled[i] # 0

C28_Witness ==
    /\ Len(eCalled) = 2
    /\ Len(displays) = 3
    /\ eNext = Len(ddc_displays)

----------------------------------------------------------------------------
(* Monitor operations: get_attribute, set_attribute, toggle_attribute and
   get_vcp_capabilities of monitorboss.impl, run over the DummyVCP test double *)

NumMonitors == 3

Codes == {4, 16, 20, 96, 170}
Values == {15, 27, 200}
ExtValues == {15, 27}

\* supported_codes: its keys, the codes whose entry is None (continuous), and
\* the parameter lists of the others.
supported_codes == {4, 16, 96, 170}
ContinuousCodes == {16}
SupportedParams == (4 :> {}) @@ (96 :> {27, 15, 17}) @@ (170 :> {1, 2, 4})
unknown_max_values == (16 :> 80)

\* VCPCommand descriptors of the codes: 4 is write-only, 170 read-only, the
\* others read-write; 16 is continuous, the others discrete.
Readable(code) == code # 4
Writeable(code) == code # 170
Discrete(code) == code # 16

Outcome(exc, ret, write) == [exc |-> exc, ret |-> ret, write |-> write]

\* DummyVCP._get_vcp_feature on the store cv.
DummyVCP_get_vcp_feature_Initial(code, cv) ==
    IF code \notin supported_codes
    THEN Outcome("OSError", <<>>, FALSE)
    ELSE IF code \notin DOMAIN cv
         THEN Outcome("KeyError", <<>>, FALSE)
         ELSE Outcome("", <<InitialValues[code],
                            IF ~Discrete(code) THEN unknown_max_values[code] ELSE 0>>, FALSE)

DummyVCP_get_vcp_feature(code, cv) ==
    IF code \notin supported_codes
    THEN Outcome("OSError", <<>>, FALSE)
    ELSE IF code \notin DOMAIN cv
         THEN Outcome("KeyError", <<>>, FALSE)
         ELSE Outcome("", <<cv[code],
                            IF ~Discrete(code) THEN unknown_max_values[code] ELSE 0>>, FALSE)

\* DummyVCP._set_vcp_feature: `write` tells whether current_values[code] = value ran.
DummyVCP_set_vcp_feature_WriteThenCheck(code, value) ==
    IF code \notin supported_codes
    THEN Outcome("OSError", <<>>, FALSE)
    ELSE IF code \in ContinuousCodes
         THEN IF value > unknown_max_values[code]
              THEN Outcome("ValueError", <<>>, TRUE)
              ELSE Outcome("", <<>>, TRUE)
         ELSE IF value \in SupportedParams[code]
              THEN Outcome("", <<>>, TRUE)
              ELSE Outcome("OSError", <<>>, FALSE)

DummyVCP_set_vcp_feature(code, value) ==
    IF code \notin supported_codes
    THEN Outcome("OSError", <<>>, FALSE)
    ELSE IF code \in ContinuousCodes
         THEN IF value > unknown_max_values[code]
              THEN Outcome("ValueError", <<>>, FALSE)
              ELSE Outcome("", <<>>, TRUE)
         ELSE IF value \in SupportedParams[code]
              THEN Outcome("", <<>>, TRUE)
              ELSE Outcome("OSError", <<>>, FALSE)

\* The error the monitor raised reaches impl either as it is or as a VCPError.
Raised(o, asVCPError) ==
    IF o.exc = "OSError" /\ asVCPError THEN [o EXCEPT !.exc = "VCPError"] ELSE o

\* ABCVCP.get_vcp_feature / set_vcp_feature: the descriptor check, then the
\* monitor-specific method.
ABCVCP_get_vcp_feature(code, cv, asVCPError) ==
    IF ~Readable(code)
    THEN Outcome("TypeError", <<>>, FALSE)
    ELSE Raised(DummyVCP_get_vcp_feature(code, cv), asVCPError)

ABCVCP_set_vcp_feature(code, value, asVCPError) ==
    IF ~Writeable(code)
    THEN Outcome("TypeError", <<>>, FALSE)
    ELSE Raised(DummyVCP_set_vcp_feature(code, value), asVCPError)

\* Variant: no except TypeError clause.
Caught_NoTypeError(phase) ==
    CASE phase = "get" -> {"VCPError"}
      [] phase = "set" -> {"VCPError", "ValueError"}
      [] OTHER -> {"VCPError"}

\* The except clauses of the impl functions: a caught exception leaves as a
\* MonitorBossError, any other leaves as it is.
Caught(phase) ==
    CASE phase = "get" -> {"VCPError", "TypeError"}
      [] phase = "set" -> {"VCPError", "TypeError", "ValueError"}
      [] OTHER -> {"VCPError"}

Leaves(phase, exc) ==
    IF exc \in Caught(phase) THEN <<"MonitorBossError", exc>> ELSE <<exc, exc>>

\* The calls made: every kind of call on monitor 0 with the read-write codes
\* and every value, one call of each kind with each other code, and one call of
\* each kind on a monitor that does not exist.
Call(kind, mon, code, val1, val2) ==
    [kind |-> kind, mon |-> mon, code |-> code, val1 |-> val1, val2 |-> val2]

Ops ==
    {Call("get", 0, c, 0, 0) : c \in Codes}
      \cup {Call("caps", m, 0, 0, 0) : m \in {0, NumMonitors}}
      \cup {Call("set", 0, c, v, 0) : c \in {16, 96}, v \in Values}
      \cup {Call("set", 0, c, 15, 0) : c \in {4, 20, 170}}
      \cup {Call("toggle", 0, c, v, w) : c \in {16, 96}, v \in Values, w \in Values}
      \cup {Call("toggle", 0, c, 15, 27) : c \in {4, 20, 170}}
      \cup {Call(k, NumMonitors, 16, 15, 27) : k \in {"get", "set", "toggle"}}

SessInit ==
    /\ sPc = "idle"
    /\ SessFresh
    /\ BatchIdle
    /\ ConfIdle
    /\ CapsIdle
    /\ SignalIdle
    /\ ExchIdle
    /\ CodecIdle
    /\ EnumIdle

\* What the call that just ended leaves for the next one to compare with: a
\* toggle between two different values that found the first of them, returned,
\* and was not disturbed.
Summary ==
    IF /\ sPc = "done" /\ sTop.kind = "toggle" /\ sErr = <<>> /\ ~sExt
       /\ sRead = sTop.val1 /\ sTop.val1 # sTop.val2
    THEN [mon |-> sTop.mon, code |-> sTop.code, val1 |-> sTop.val1, val2 |-> sTop.val2]
    ELSE NoToggle

\* A call of get_attribute, set_attribute, toggle_attribute or get_vcp_capabilities.
SessStart(op) ==
    /\ sPc \in {"idle", "done"}
    /\ sTop' = op
    /\ sPhase' = IF op.kind = "toggle" THEN "get" ELSE op.kind
    /\ sPc' = "enter"
    /\ sVal' = <<>>
    /\ sErr' = <<>>
    /\ sResult' = <<>>
    /\ cur_val' = -1
    /\ new_val' = -1
    /\ sRead' = -1
    /\ sWrote' = -1
    /\ sExt' = FALSE
    /\ sExtMid' = FALSE
    /\ sPrev' = Summary
    /\ UNCHANGED <<current_values, sHeld, sSetVal>>

\* with _get_monitor(mon) as monitor: the monitor is looked up and entered.
SessEnter ==
    /\ sPc = "enter"
    /\ IF sTop.mon \in 0 .. NumMonitors - 1
       THEN /\ sHeld' = sHeld \cup {sTop.mon}
            /\ sPc' = "call"
            /\ UNCHANGED sErr
       ELSE /\ sErr' = <<"MonitorBossError", "IndexError">>
            /\ sPc' = "done"
            /\ UNCHANGED sHeld
    /\ UNCHANGED <<current_values, sTop, sPhase, sVal, sResult, cur_val, new_val,
                   sRead, sWrote, sExt, sExtMid, sSetVal, sPrev>>

SetArg == IF sTop.kind = "toggle" THEN new_val ELSE sTop.val1

\* Variant: a toggle's write is refused when the value is no longer the one read.
SessCall_DetectsChange(asVCPError) ==
    /\ sPc = "call"
    /\ sPc' = "exit"
    /\ CASE sPhase = "get" ->
              LET o == ABCVCP_get_vcp_feature(sTop.code, current_values, asVCPError) IN
                /\ sRead' = IF sTop.code \in DOMAIN current_values
                            THEN current_values[sTop.code] ELSE -1
                /\ IF o.exc = ""
                   THEN sVal' = o.ret /\ UNCHANGED sErr
                   ELSE sErr' = Leaves("get", o.exc) /\ UNCHANGED sVal
                /\ UNCHANGED <<current_values, sWrote, sSetVal>>
         [] sPhase = "set" ->
              LET o == IF sTop.kind = "toggle" /\ current_values[sTop.code] # cur_val
                       THEN Outcome("VCPError", <<>>, FALSE)
                       ELSE ABCVCP_set_vcp_feature(sTop.code, SetArg, asVCPError) IN
                /\ IF o.write
                   THEN /\ current_values' = [current_values EXCEPT ![sTop.code] = SetArg]
                        /\ sWrote' = SetArg
                   ELSE UNCHANGED <<current_values, sWrote>>
                /\ IF o.exc = ""
                   THEN /\ sVal' = <<SetArg>>
                        /\ sSetVal' = [sSetVal EXCEPT ![sTop.code] = SetArg]
                        /\ UNCHANGED sErr
                   ELSE /\ sErr' = Leaves("set", o.exc)
                        /\ UNCHANGED <<sVal, sSetVal>>
                /\ UNCHANGED sRead
         [] OTHER ->
                /\ sVal' = <<"CAPS_STR">>
                /\ UNCHANGED <<current_values, sErr, sRead, sWrote, sSetVal>>
    /\ UNCHANGED <<sHeld, sTop, sPhase, sResult, cur_val, new_val, sExt, sExtMid, sPrev>>

\* The body of the with block: the VCP method and the except clauses.
SessCall(asVCPError) ==
    /\ sPc = "call"
    /\ sPc' = "exit"
    /\ CASE sPhase = "get" ->
              LET o == ABCVCP_get_vcp_feature(sTop.code, current_values, asVCPError) IN
                /\ sRead' = IF sTop.code \in DOMAIN current_values
                            THEN current_values[sTop.code] ELSE -1
                /\ IF o.exc = ""
                   THEN sVal' = o.ret /\ UNCHANGED sErr
                   ELSE sErr' = Leaves("get", o.exc) /\ UNCHANGED sVal
                /\ UNCHANGED <<current_values, sWrote, sSetVal>>
         [] sPhase = "set" ->
              LET o == ABCVCP_set_vcp_feature(sTop.code, SetArg, asVCPError) IN
                /\ IF o.write
                   THEN /\ current_values' = [current_values EXCEPT ![sTop.code] = SetArg]
                        /\ sWrote' = SetArg
                   ELSE UNCHANGED <<current_values, sWrote>>
                /\ IF o.exc = ""
                   THEN /\ sVal' = <<SetArg>>
                        /\ sSetVal' = [sSetVal EXCEPT ![sTop.code] = SetArg]
                        /\ UNCHANGED sErr
                   ELSE /\ sErr' = Leaves("set", o.exc)
                        /\ UNCHANGED <<sVal, sSetVal>>
                /\ UNCHANGED sRead
         [] OTHER ->
                /\ sVal' = <<"CAPS_STR">>
                /\ UNCHANGED <<current_values, sErr, sRead, sWrote, sSetVal>>
    /\ UNCHANGED <<sHeld, sTop, sPhase, sResult, cur_val, new_val, sExt, sExtMid, sPrev>>

\* Variant: a toggle whose read failed goes on with 0 as the current value.
SessExit_DefaultOnReadError ==
    /\ sPc = "exit"
    /\ sHeld' = sHeld \ {sTop.mon}
    /\ IF sTop.kind = "toggle" /\ sPhase = "get"
       THEN /\ cur_val' = IF sErr # <<>> THEN 0 ELSE sVal[1]
            /\ sErr' = <<>>
            /\ sPc' = "choose"
            /\ UNCHANGED sResult
       ELSE /\ UNCHANGED sErr
            /\ IF sErr # <<>>
               THEN /\ sPc' = "done"
                    /\ UNCHANGED <<sResult, cur_val>>
               ELSE IF sTop.kind = "toggle"
                    THEN /\ sPc' = "tog_ret"
                         /\ UNCHANGED <<sResult, cur_val>>
                    ELSE /\ sResult' = sVal
                         /\ sPc' = "done"
                         /\ UNCHANGED cur_val
    /\ UNCHANGED <<current_values, sTop, sPhase, sVal, new_val,
                   sRead, sWrote, sExt, sExtMid, sSetVal, sPrev>>

\* Variant: the monitor is released only when the body raised nothing.
SessExit_KeepOnError ==
    /\ sPc = "exit"
    /\ sHeld' = IF sErr # <<>> THEN sHeld ELSE sHeld \ {sTop.mon}
    /\ IF sErr # <<>>
       THEN /\ sPc' = "done"
            /\ UNCHANGED <<sResult, cur_val>>
       ELSE IF sTop.kind = "toggle"
            THEN IF sPhase = "get"
                 THEN /\ cur_val' = sVal[1]
                      /\ sPc' = "choose"
                      /\ UNCHANGED sResult
                 ELSE /\ sPc' = "tog_ret"
                      /\ UNCHANGED <<sResult, cur_val>>
            ELSE /\ sResult' = sVal
                 /\ sPc' = "done"
                 /\ UNCHANGED cur_val
    /\ UNCHANGED <<current_values, sTop, sPhase, sVal, sErr, new_val,
                   sRead, sWrote, sExt, sExtMid, sSetVal, sPrev>>

\* __exit__ runs, then the function returns its value or the exception leaves
\* it; in a toggle the get is followed by line 114 and the set by line 117.
SessExit ==
    /\ sPc = "exit"
    /\ sHeld' = sHeld \ {sTop.mon}
    /\ IF sErr # <<>>
       THEN /\ sPc' = "done"
            /\ UNCHANGED <<sResult, cur_val>>
       ELSE IF sTop.kind = "toggle"
            THEN IF sPhase = "get"
                 THEN /\ cur_val' = sVal[1]
                      /\ sPc' = "choose"
                      /\ UNCHANGED sResult
                 ELSE /\ sPc' = "tog_ret"
                      /\ UNCHANGED <<sResult, cur_val>>
            ELSE /\ sResult' = sVal
                 /\ sPc' = "done"
                 /\ UNCHANGED cur_val
    /\ UNCHANGED <<current_values, sTop, sPhase, sVal, sErr, new_val,
                   sRead, sWrote, sExt, sExtMid, sSetVal, sPrev>>

\* Variant: the two values the wrong way round.
ToggleChoose_Swapped ==
    /\ sPc = "choose"
    /\ new_val' = IF cur_val = sTop.val1 THEN sTop.val1 ELSE sTop.val2
    /\ sPhase' = "set"
    /\ sVal' = <<>>
    /\ sPc' = "enter"
    /\ UNCHANGED <<current_values, sHeld, sTop, sErr, sResult, cur_val,
                   sRead, sWrote, sExt, sExtMid, sSetVal, sPrev>>

\* Variant: without the comparison, the second value every time.
ToggleChoose_AlwaysSecond ==
    /\ sPc = "choose"
    /\ new_val' = sTop.val2
    /\ sPhase' = "set"
    /\ sVal' = <<>>
    /\ sPc' = "enter"
    /\ UNCHANGED <<current_values, sHeld, sTop, sErr, sResult, cur_val,
                   sRead, sWrote, sExt, sExtMid, sSetVal, sPrev>>

\* new_val = val2 if cur_val == val1 else val1, then set_attribute is called.
ToggleChoose ==
    /\ sPc = "choose"
    /\ new_val' = IF cur_val = sTop.val1 THEN sTop.val2 ELSE sTop.val1
    /\ sPhase' = "set"
    /\ sVal' = <<>>
    /\ sPc' = "enter"
    /\ UNCHANGED <<current_values, sHeld, sTop, sErr, sResult, cur_val,
                   sRead, sWrote, sExt, sExtMid, sSetVal, sPrev>>

\* return ToggledAttribute(cur_val, new_val)
ToggleReturn ==
    /\ sPc = "tog_ret"
    /\ sResult' = <<"ToggledAttribute", cur_val, new_val>>
    /\ sPc' = "done"
    /\ UNCHANGED <<current_values, sHeld, sTop, sPhase, sVal, sErr, cur_val, new_val,
                   sRead, sWrote, sExt, sExtMid, sSetVal, sPrev>>

\* Someone else (the monitor's own buttons, another program) changes the value
\* of a feature.
BetweenReadAndWrite ==
    /\ sTop.kind = "toggle"
    /\ sErr = <<>>
    /\ \/ sPhase = "get" /\ sPc = "exit"
       \/ sPc = "choose"
       \/ sPhase = "set" /\ sPc \in {"enter", "call"}

External(code, v) ==
    /\ sPc # "off"
    /\ code \in {16, 96}
    /\ v # current_values[code]
    /\ current_values' = [current_values EXCEPT ![code] = v]
    /\ sSetVal' = [sSetVal EXCEPT ![code] = -1]
    /\ sExt' = TRUE
    /\ sExtMid' = (sExtMid \/ (BetweenReadAndWrite /\ code = sTop.code))
    /\ UNCHANGED <<sHeld, sTop, sPhase, sPc, sVal, sErr, sResult, cur_val, new_val,
                   sRead, sWrote, sPrev>>

SessNext ==
    \/ (\E op \in Ops : SessStart(op)) /\ UNCHANGED nonSessVars
    \/ SessEnter /\ UNCHANGED nonSessVars
    \/ (\E asVCPError \in BOOLEAN : SessCall(asVCPError)) /\ UNCHANGED nonSessVars
    \/ SessExit /\ UNCHANGED nonSessVars
    \/ ToggleChoose /\ UNCHANGED nonSessVars
    \/ ToggleReturn /\ UNCHANGED nonSessVars
    \/ (\E code \in {16, 96}, v \in ExtValues : External(code, v)) /\ UNCHANGED nonSessVars

SessionSpec == SessInit /\ [][SessNext]_vars

----------------------------------------------------------------------------
(* Properties of the monitor operations *)

SessDone == sPc = "done"
Toggling == sTop.kind = "toggle"
Chosen(c) == IF c = sTop.val1 THEN sTop.val2 ELSE sTop.val1

\* C12: toggle_attribute(mon, feature, a, b) reads the current value c, then
\* writes b if c equals a and a otherwise (also when c is neither), and returns
\* old = c and new = the value it wrote.
C12_ToggleWritesTheOther ==
    /\ (Toggling /\ sWrote # -1) =>
          /\ sRead # -1
          /\ sWrote = Chosen(sRead)
    /\ (Toggling /\ SessDone /\ sErr = <<>>) =>
          /\ sWrote = Chosen(sRead)
          /\ sResult = <<"ToggledAttribute", sRead, sWrote>>

C12_Witness ==
    /\ SessDone
    /\ sTop = Call("toggle", 0, 16, 15, 27)
    /\ sRead = 75
    /\ sWrote = 15
    /\ sResult = <<"ToggledAttribute", 75, 15>>

\* C13: starting with the feature's value equal to a, with a # b and nobody
\* else changing it, two consecutive toggles with the same (a, b) return
\* {old: a, new: b} and then {old: b, new: a}, and the value is a again.
C13_TwoTogglesOscillate ==
    /\ (Toggling /\ SessDone /\ sErr = <<>> /\ ~sExt
            /\ sRead = sTop.val1 /\ sTop.val1 # sTop.val2) =>
          sResult = <<"ToggledAttribute", sTop.val1, sTop.val2>>
    /\ (Toggling /\ SessDone /\ ~sExt /\ sPrev # NoToggle
            /\ sPrev = [mon |-> sTop.mon, code |-> sTop.code,
                        val1 |-> sTop.val1, val2 |-> sTop.val2]) =>
          /\ sErr = <<>>
          /\ sResult = <<"ToggledAttribute", sTop.val2, sTop.val1>>
          /\ current_values[sTop.code] = sTop.val1

C13_Witness ==
    /\ SessDone
    /\ sTop = Call("toggle", 0, 96, 27, 15)
    /\ sPrev = [mon |-> 0, code |-> 96, val1 |-> 27, val2 |-> 15]
    /\ ~sExt
    /\ sResult = <<"ToggledAttribute", 15, 27>>
    /\ current_values[96] = 27

\* The read of the call in progress cannot succeed: the monitor does not
\* exist, or get_vcp_feature raises for this code.
ReadFails ==
    \/ sTop.mon \notin 0 .. NumMonitors - 1
    \/ ABCVCP_get_vcp_feature(sTop.code, current_values, FALSE).exc # ""

\* The error a get_attribute call with the toggle's arguments ends with.
ReadErrors ==
    IF sTop.mon \notin 0 .. NumMonitors - 1
    THEN {<<"MonitorBossError", "IndexError">>}
    ELSE IF sTop.code = 4
         THEN {<<"MonitorBossError", "TypeError">>}
         ELSE {<<"MonitorBossError", "VCPError">>, <<"OSError", "OSError">>}

\* C14: when a toggle's read fails, the toggle fails with that error, writes
\* nothing to the monitor and puts no default in the place of the current
\* value; no step of the toggle changes the monitor's value.
C14_FailedReadStopsToggle ==
    /\ [](Toggling /\ ReadFails =>
            /\ sPhase = "get"
            /\ sWrote = -1
            /\ cur_val = -1
            /\ new_val = -1
            /\ sResult = <<>>
            /\ SessDone => sErr \in ReadErrors)
    /\ [][(Toggling /\ sPhase = "get" /\ sPc' # sPc) =>
            /\ current_values' = current_values
            /\ (sErr' # <<>> => sPc' \in {"exit", "done"})]_vars

C14_Witness ==
    /\ SessDone
    /\ sTop = Call("toggle", 0, 20, 15, 27)
    /\ sErr = <<"MonitorBossError", "VCPError">>
    /\ sWrote = -1
    /\ current_values = InitialValues

\* C15: when someone else changes the value between a toggle's read and its
\* write, the toggle does not notice: it writes the value chosen from the value
\* it read, reports that value as old, and raises no error on that account.
C15_ToggleIgnoresChangeInBetween ==
    (Toggling /\ SessDone /\ sExtMid) =>
        /\ cur_val = sRead
        /\ new_val = Chosen(sRead)
        /\ sErr = <<>> <=> ABCVCP_set_vcp_feature(sTop.code, new_val, FALSE).exc = ""
        /\ sErr = <<>> => sWrote = new_val
        /\ sErr = <<>> => sResult = <<"ToggledAttribute", sRead, new_val>>
        /\ sErr # <<>> => sErr[2] \in {"TypeError", "ValueError", "VCPError", "OSError"}
                            /\ sWrote = -1

C15_Witness ==
    /\ SessDone
    /\ sTop = Call("toggle", 0, 16, 15, 27)
    /\ sExtMid
    /\ sRead = 75
    /\ sResult = <<"ToggledAttribute", 75, 15>>
    /\ sErr = <<>>
    /\ current_values[16] = 15

\* C16: after a successful set of a feature to V, the next get of that feature
\* returns current = V, provided nothing else wrote the feature in between.
C16_GetReturnsWhatWasSet ==
    (SessDone /\ sTop.kind = "get" /\ sErr = <<>>
        /\ sTop.code \in DOMAIN sSetVal /\ sSetVal[sTop.code] # -1) =>
            sResult[1] = sSetVal[sTop.code]

C16_Witness ==
    /\ SessDone
    /\ sTop = Call("get", 0, 16, 0, 0)
    /\ sSetVal[16] = 15
    /\ sResult = <<15, 80>>

\* A set of a continuous feature to a value above its maximum, on a monitor
\* that exists, is in progress or has just ended.
SetAboveMax ==
    /\ sPhase = "set"
    /\ sTop.mon \in 0 .. NumMonitors - 1
    /\ sTop.code \in ContinuousCodes
    /\ SetArg > unknown_max_values[sTop.code]

\* C17: setting a continuous feature to a value above its maximum fails with an
\* out-of-range error, writes nothing to the monitor, and leaves the feature's
\* current value as it was.
C17_AboveMaxRejectedWithoutWrite ==
    /\ [](SetAboveMax =>
            /\ sWrote = -1
            /\ sResult = <<>>
            /\ SessDone => sErr = <<"MonitorBossError", "ValueError">>)
    /\ [][(SetAboveMax /\ sPc' # sPc) => current_values' = current_values]_vars

C17_Witness ==
    /\ SessDone
    /\ sTop = Call("set", 0, 16, 200, 0)
    /\ sErr = <<"MonitorBossError", "ValueError">>
    /\ sWrote = -1
    /\ current_values[16] = 75

\* C18: get_attribute, set_attribute and get_vcp_capabilities hold the monitor
\* while their with block runs and have released it when they return or raise;
\* between calls, whatever their outcome, no monitor is held.
C18_NothingHeldBetweenCalls ==
    /\ sPc \in {"call", "exit"} => sHeld = {sTop.mon}
    /\ sPc \notin {"call", "exit"} => sHeld = {}

C18_Witness ==
    /\ SessDone
    /\ sTop.kind = "set"
    /\ sTop.mon = 0
    /\ sErr = <<"OSError", "OSError">>
    /\ sHeld = {}

\* A get of a feature that is not readable, or a set of a feature that is not
\* writable, on a monitor that exists, is in progress or has just ended.
UnsupportedCall ==
    /\ sTop.mon \in 0 .. NumMonitors - 1
    /\ \/ sPhase = "get" /\ ~Readable(sTop.code)
       \/ sPhase = "set" /\ ~Writeable(sTop.code)

\* C23: a get of a feature that is not readable and a set of a feature that is
\* not writable fail with an error of the Unsupported kind reported to the
\* caller (MonitorBossError: not a readable / writeable feature), and change
\* nothing on the monitor.
C23_UnsupportedFailsWithoutChange ==
    /\ [](UnsupportedCall =>
            /\ sWrote = -1
            /\ sVal = <<>>
            /\ SessDone => sErr = <<"MonitorBossError", "TypeError">>)
    /\ [][(UnsupportedCall /\ sPc' # sPc) => current_values' = current_values]_vars

C23_Witness ==
    /\ SessDone
    /\ sTop = Call("set", 0, 170, 15, 0)
    /\ sErr = <<"MonitorBossError", "TypeError">>
    /\ sWrote = -1

\* C24: a toggle with a = b writes a whatever the current value is and reports
\* new = a, and old = new = a when the current value already is a; with a # b
\* the reported new differs from the reported old and is one of a, b.
C24_ToggleWithEqualValues ==
    (Toggling /\ SessDone /\ sErr = <<>>) =>
        /\ sTop.val1 = sTop.val2 =>
              /\ sWrote = sTop.val1
              /\ sResult[3] = sTop.val1
              /\ sRead = sTop.val1 => sResult = <<"ToggledAttribute", sTop.val1, sTop.val1>>
        /\ sTop.val1 # sTop.val2 =>
              /\ sResult[3] # sResult[2]
              /\ sResult[3] \in {sTop.val1, sTop.val2}

C24_Witness ==
    /\ SessDone
    /\ sTop = Call("toggle", 0, 16, 15, 15)
    /\ sRead = 15
    /\ sResult = <<"ToggledAttribute", 15, 15>>
    /\ current_values[16] = 15

----------------------------------------------------------------------------
(* Batch commands of the command line: _get_attr, _set_attr and _tog_attr of
   monitorboss.cli, for the luminance feature, over the DummyVCP test double *)

MaxMons == 2

\* An argument that names nothing: a feature that is neither a code nor an
\* alias, a monitor or a value that is neither an alias nor an integer.
BadArg == 999

MonArgs == {0, 1, NumMonitors, BadArg}
ValArgs == {15, 200, BadArg}
MonLists == UNION {[1 .. n -> MonArgs] : n \in 1 .. MaxMons}

Command(kind, attr, mon, val1, val2) ==
    [kind |-> kind, attr |-> attr, mon |-> mon, val1 |-> val1, val2 |-> val2]

Commands ==
    {Command("get", a, m, 0, 0) : a \in {16, BadArg}, m \in MonLists}
      \cup {Command("set", a, m, v, 0) : a \in {16, BadArg}, m \in MonLists, v \in ValArgs}
      \cup {Command("tog", a, m, v, w) :
                a \in {16, BadArg}, m \in MonLists, v \in ValArgs, w \in ValArgs}

BatchInit ==
    /\ bPc = "start"
    /\ bCmd \in Commands
    /\ mons = <<>>
    /\ bI = 0
    /\ bJ = 0
    /\ cur_vals = <<>>
    /\ new_vals = <<>>
    /\ bErr = <<>>
    /\ bOut = <<>>
    /\ bLog = <<>>
    /\ sPc = "off"
    /\ SessFresh
    /\ ExchIdle
    /\ CodecIdle
    /\ EnumIdle
    /\ ConfIdle
    /\ CapsIdle
    /\ SignalIdle

\* Variant: the monitor arguments are not checked before the loop.
CheckFails_MonitorsUnchecked(c) ==
    IF c.attr = BadArg THEN "feature"
    ELSE IF c.kind \in {"set", "tog"} /\ c.val1 = BadArg THEN "value"
    ELSE IF c.kind = "tog" /\ c.val2 = BadArg THEN "value"
    ELSE ""

\* _check_feature, _check_mon for each monitor, _check_val for each value, in
\* the order the command function calls them: the first that raises, "" if none.
CheckFails(c) ==
    IF c.attr = BadArg THEN "feature"
    ELSE IF \E i \in 1 .. Len(c.mon) : c.mon[i] = BadArg THEN "monitor"
    ELSE IF c.kind \in {"set", "tog"} /\ c.val1 = BadArg THEN "value"
    ELSE IF c.kind = "tog" /\ c.val2 = BadArg THEN "value"
    ELSE ""

\* The first lines of _get_attr / _set_attr / _tog_attr.
BatchCheck ==
    /\ bPc = "start"
    /\ IF CheckFails(bCmd) # ""
       THEN /\ bErr' = <<"MonitorBossError", CheckFails(bCmd)>>
            /\ bPc' = "error"
            /\ UNCHANGED mons
       ELSE /\ mons' = bCmd.mon
            /\ bPc' = "loop"
            /\ UNCHANGED bErr
    /\ UNCHANGED <<bCmd, bI, bJ, cur_vals, new_vals, bOut, bLog, current_values>>

Effect(err, ret, store, log) == [err |-> err, ret |-> ret, store |-> store, log |-> log]

\* get_attribute(m, vcpcom, ...) as a whole, on the store cv, for the k-th monitor.
GetAttribute(k, m, code, cv) ==
    IF m \notin 0 .. NumMonitors - 1
    THEN Effect(<<"MonitorBossError", "IndexError">>, <<>>, cv, <<>>)
    ELSE LET o == ABCVCP_get_vcp_feature(code, cv, TRUE) IN
         IF o.exc # ""
         THEN Effect(Leaves("get", o.exc), <<>>, cv, <<>>)
         ELSE Effect(<<>>, o.ret, cv, <<<<"read", k, m>>>>)

\* set_attribute(m, vcpcom, val, ...) as a whole.
SetAttribute(k, m, code, val, cv) ==
    IF m \notin 0 .. NumMonitors - 1
    THEN Effect(<<"MonitorBossError", "IndexError">>, <<>>, cv, <<>>)
    ELSE LET o == ABCVCP_set_vcp_feature(code, val, TRUE) IN
         LET cv2 == IF o.write THEN [cv EXCEPT ![code] = val] ELSE cv
             lg == IF o.write THEN <<<<"write", k, m>>>> ELSE <<>> IN
         IF o.exc # ""
         THEN Effect(Leaves("set", o.exc), <<>>, cv2, lg)
         ELSE Effect(<<>>, <<val>>, cv2, lg)

\* toggle_attribute(m, vcpcom, val1, val2, ...) as a whole.
ToggleAttribute(k, m, code, val1, val2, cv) ==
    LET g == GetAttribute(k, m, code, cv) IN
    IF g.err # <<>>
    THEN g
    ELSE LET cur == g.ret[1]
             new == IF cur = val1 THEN val2 ELSE val1
             w == SetAttribute(k, m, code, new, cv) IN
         IF w.err # <<>>
         THEN Effect(w.err, <<>>, w.store, g.log \o w.log)
         ELSE Effect(<<>>, <<cur, new>>, w.store, g.log \o w.log)

\* The call the loop body makes for the k-th monitor.
LoopCall(k) ==
    CASE bCmd.kind = "get" -> GetAttribute(k, mons[k], bCmd.attr, current_values)
      [] bCmd.kind = "set" -> SetAttribute(k, mons[k], bCmd.attr, bCmd.val1, current_values)
      [] OTHER -> ToggleAttribute(k, mons[k], bCmd.attr, bCmd.val1, bCmd.val2, current_values)

\* One pass of "for i, m in enumerate(mons)": the call and the append.
BatchOp ==
    /\ bPc = "loop"
    /\ LET e == LoopCall(bI + 1) IN
         /\ current_values' = e.store
         /\ bLog' = bLog \o e.log
         /\ IF e.err # <<>>
            THEN /\ bErr' = e.err
                 /\ bPc' = "error"
                 /\ UNCHANGED <<bI, cur_vals, new_vals>>
            ELSE /\ bI' = bI + 1
                 /\ IF bCmd.kind = "get"
                    THEN cur_vals' = Append(cur_vals, e.ret[1]) /\ UNCHANGED new_vals
                    ELSE new_vals' = Append(new_vals, e.ret) /\ UNCHANGED cur_vals
                 /\ bPc' = IF bI + 1 < Len(mons) THEN "sleep"
                           ELSE IF bCmd.kind = "set" THEN "again" ELSE "print"
                 /\ UNCHANGED bErr
    /\ UNCHANGED <<bCmd, mons, bJ, bOut>>

\* if i + 1 < len(mons): sleep(cfg.wait_get_time) / sleep(cfg.wait_set_time)
BatchSleep ==
    /\ bPc = "sleep"
    /\ bLog' = Append(bLog, <<"sleep", bI, -1>>)
    /\ bPc' = "loop"
    /\ UNCHANGED <<bCmd, mons, bI, bJ, cur_vals, new_vals, bErr, bOut, current_values>>

\* Variant of _set_attr without its line 239: the results of the loop are printed.
BatchSetAgain_Absent ==
    /\ bPc = "again"
    /\ bJ' = Len(mons)
    /\ bPc' = "print"
    /\ UNCHANGED <<bCmd, mons, bI, cur_vals, new_vals, bErr, bOut, bLog, current_values>>

\* new_vals = [set_attribute(m, vcpcom, val, ...) for m in mons]: the next
\* element; the list replaces new_vals when the last one is made.
BatchSetAgain ==
    /\ bPc = "again"
    /\ LET e == SetAttribute(bJ + 1, mons[bJ + 1], bCmd.attr, bCmd.val1, current_values) IN
         /\ current_values' = e.store
         /\ bLog' = bLog \o e.log
         /\ IF e.err # <<>>
            THEN /\ bErr' = e.err
                 /\ bPc' = "error"
                 /\ UNCHANGED <<bJ, new_vals>>
            ELSE /\ bJ' = bJ + 1
                 /\ new_vals' = [new_vals EXCEPT ![bJ + 1] = e.ret]
                 /\ bPc' = IF bJ + 1 < Len(mons) THEN "again" ELSE "print"
                 /\ UNCHANGED bErr
    /\ UNCHANGED <<bCmd, mons, bI, cur_vals, bOut>>

\* for mon, val in zip(mons, ...): print(...)
BatchPrint ==
    /\ bPc = "print"
    /\ bOut' = [k \in 1 .. Len(mons) |->
                  IF bCmd.kind = "get" THEN <<mons[k], cur_vals[k]>>
                  ELSE <<mons[k]>> \o new_vals[k]]
    /\ bPc' = "done"
    /\ UNCHANGED <<bCmd, mons, bI, bJ, cur_vals, new_vals, bErr, bLog, current_values>>

BatchNext ==
    \/ BatchCheck /\ UNCHANGED nonBatchVars
    \/ BatchOp /\ UNCHANGED nonBatchVars
    \/ BatchSleep /\ UNCHANGED nonBatchVars
    \/ BatchSetAgain /\ UNCHANGED nonBatchVars
    \/ BatchPrint /\ UNCHANGED nonBatchVars

BatchSpec == BatchInit /\ [][BatchNext]_vars

----------------------------------------------------------------------------
(* Properties of the batch commands *)

IsBus(e) == e[1] \in {"read", "write"}
BusPositions == {i \in 1 .. Len(bLog) : IsBus(bLog[i])}

\* C22: in a batch get, set or toggle the monitors are operated on one at a
\* time in the order given, and between the last bus operation on one monitor
\* and the first on the next the inter-display delay elapses.
C22_DelayBetweenMonitors ==
    /\ \A i, j \in BusPositions : i < j => bLog[i][2] <= bLog[j][2]
    /\ \A i \in BusPositions :
          (i + 1) \in BusPositions => bLog[i][3] = bLog[i + 1][3]

\* C26: a batch set issues exactly one set per listed monitor, and the value
\* reported for each monitor is the value requested.
C26_OneSetPerMonitor ==
    (bPc = "done" /\ bCmd.kind = "set") =>
        \A k \in 1 .. Len(mons) :
            /\ Cardinality({i \in 1 .. Len(bLog) : bLog[i] = <<"write", k, mons[k]>>}) = 1
            /\ bOut[k] = <<mons[k], bCmd.val1>>

\* Some argument of the command names nothing.
Unresolvable ==
    \/ bCmd.attr = BadArg
    \/ \E i \in 1 .. Len(bCmd.mon) : bCmd.mon[i] = BadArg
    \/ bCmd.kind \in {"set", "tog"} /\ bCmd.val1 = BadArg
    \/ bCmd.kind = "tog" /\ bCmd.val2 = BadArg

----------------------------------------------------------------------------
(* Configuration files: read_config, the alias and wait setters, reset_config
   of monitorboss.config, all working through the module-level cfg_parser *)

MaxConfigCalls == 3

\* An option that is not there.
Absent == -9

Paths == {"A.conf", "B.conf"}
MonAliases == {"DEFAULT", "X"}
InpAliases == {"USBC"}

\* What a file or the parser holds: the options of MONITOR_NAMES and of
\* INPUT_NAMES (Absent for an option that is not there) and SETTINGS.WAIT.
Content(mon, inp, wait) == [mon |-> mon, inp |-> inp, wait |-> wait]

\* DEFAULT_CONF_CONTENT
DEFAULT_CONF_CONTENT ==
    Content([a \in MonAliases |-> IF a = "DEFAULT" THEN 0 ELSE Absent],
            [a \in InpAliases |-> 27], 2)

\* A ConfigParser just created: no section, no option.
EmptyParser ==
    Content([a \in MonAliases |-> Absent], [a \in InpAliases |-> Absent], Absent)

\* Another file: no DEFAULT monitor, monitor X, another input id, and a WAIT
\* that is positive or negative.
OtherContent(wait) ==
    Content([a \in MonAliases |-> IF a = "X" THEN 1 ELSE Absent],
            [a \in InpAliases |-> 15], wait)

ConfInit ==
    /\ cfgFiles \in {[q \in Paths |-> IF q = "A.conf" THEN DEFAULT_CONF_CONTENT
                                      ELSE OtherContent(w)] : w \in {5, -1, Absent}}
    /\ cfg_parser = EmptyParser
    /\ cOp = <<>>
    /\ cRet = <<>>
    /\ cErr = ""
    /\ cN = 0
    /\ ExchIdle
    /\ CodecIdle
    /\ EnumIdle
    /\ SessIdle
    /\ BatchIdle
    /\ CapsIdle
    /\ SignalIdle

\* Variant: the parser is emptied before the file is read.
ReadFile_IntoEmptyParser(parser, file) == file

\* cfg_parser.read_file(file, path): every option of the file is set in the
\* parser; options the parser already holds and the file does not stay.
ReadFile(parser, file) ==
    Content([a \in MonAliases |-> IF file.mon[a] # Absent THEN file.mon[a] ELSE parser.mon[a]],
            [a \in InpAliases |-> IF file.inp[a] # Absent THEN file.inp[a] ELSE parser.inp[a]],
            IF file.wait # Absent THEN file.wait ELSE parser.wait)

\* read_config(path): the parser after the call, the error raised ("" when
\* none) and the Config built from the parser.
ReadConfig(parser, file) ==
    LET q == ReadFile(parser, file) IN
      [parser |-> q,
       err |-> IF q.wait = Absent THEN "could not parse config file"
               ELSE IF q.wait < 0 THEN "WAIT time is set to a negative value"
               ELSE "",
       cfg |-> IF q.wait < 0 THEN <<>> ELSE q]

Called(name, path) == <<name, path>>

\* read_config(path)
read_config(path) ==
    /\ cN < MaxConfigCalls
    /\ cN' = cN + 1
    /\ LET r == ReadConfig(cfg_parser, cfgFiles[path]) IN
         /\ cfg_parser' = r.parser
         /\ cErr' = r.err
         /\ cRet' = r.cfg
    /\ cOp' = Called("read_config", path)
    /\ UNCHANGED cfgFiles

\* The setters and removers: read_config(path), the change to cfg_parser, then
\* __write_config(path), which writes all the parser holds.
Update(name, path, change(_)) ==
    /\ cN < MaxConfigCalls
    /\ cN' = cN + 1
    /\ cOp' = Called(name, path)
    /\ cRet' = <<>>
    /\ LET r == ReadConfig(cfg_parser, cfgFiles[path]) IN
         IF r.err # ""
         THEN /\ cfg_parser' = r.parser
              /\ cErr' = r.err
              /\ UNCHANGED cfgFiles
         ELSE /\ cfg_parser' = change(r.parser)
              /\ cfgFiles' = [cfgFiles EXCEPT ![path] = change(r.parser)]
              /\ cErr' = ""

set_monitor_alias(alias, monid, path) ==
    Update("set_monitor_alias", path, LAMBDA q : [q EXCEPT !.mon[alias] = monid])

remove_monitor_alias(alias, path) ==
    Update("remove_monitor_alias", path, LAMBDA q : [q EXCEPT !.mon[alias] = Absent])

set_input_alias(alias, inputid, path) ==
    Update("set_input_alias", path, LAMBDA q : [q EXCEPT !.inp[alias] = inputid])

remove_input_alias(alias, path) ==
    Update("remove_input_alias", path, LAMBDA q : [q EXCEPT !.inp[alias] = Absent])

\* Variant: the sign of the new WAIT is not tested.
set_wait_time_Unchecked(wait, path) ==
    /\ cN < MaxConfigCalls
    /\ cN' = cN + 1
    /\ cOp' = Called("set_wait_time", path) \o <<wait>>
    /\ cRet' = <<>>
    /\ LET r == ReadConfig(cfg_parser, cfgFiles[path]) IN
         IF r.err # ""
         THEN /\ cfg_parser' = r.parser
              /\ cErr' = r.err
              /\ UNCHANGED cfgFiles
         ELSE /\ cfg_parser' = [r.parser EXCEPT !.wait = wait]
              /\ cfgFiles' = [cfgFiles EXCEPT ![path] = [r.parser EXCEPT !.wait = wait]]
              /\ cErr' = ""

\* set_wait_time(wait, path): read_config, then the test of the sign, then the
\* change and the write.
set_wait_time(wait, path) ==
    /\ cN < MaxConfigCalls
    /\ cN' = cN + 1
    /\ cOp' = Called("set_wait_time", path) \o <<wait>>
    /\ cRet' = <<>>
    /\ LET r == ReadConfig(cfg_parser, cfgFiles[path]) IN
         IF r.err # ""
         THEN /\ cfg_parser' = r.parser
              /\ cErr' = r.err
              /\ UNCHANGED cfgFiles
         ELSE IF wait < 0
              THEN /\ cfg_parser' = r.parser
                   /\ cErr' = "WAIT time can not be set to a negative value"
                   /\ UNCHANGED cfgFiles
              ELSE /\ cfg_parser' = [r.parser EXCEPT !.wait = wait]
                   /\ cfgFiles' = [cfgFiles EXCEPT ![path] = [r.parser EXCEPT !.wait = wait]]
                   /\ cErr' = ""

\* reset_config(path): the default content is written to the file; cfg_parser
\* is not touched.
reset_config(path) ==
    /\ cN < MaxConfigCalls
    /\ cN' = cN + 1
    /\ cOp' = Called("reset_config", path)
    /\ cRet' = <<>>
    /\ cErr' = ""
    /\ cfgFiles' = [cfgFiles EXCEPT ![path] = DEFAULT_CONF_CONTENT]
    /\ UNCHANGED cfg_parser

ConfNext ==
    \/ (\E path \in Paths : read_config(path)) /\ UNCHANGED nonConfVars
    \/ (\E path \in Paths, monid \in {0, 1} : set_monitor_alias("X", monid, path))
          /\ UNCHANGED nonConfVars
    \/ (\E path \in Paths, alias \in MonAliases : remove_monitor_alias(alias, path))
          /\ UNCHANGED nonConfVars
    \/ (\E path \in Paths : set_input_alias("USBC", 17, path)) /\ UNCHANGED nonConfVars
    \/ (\E path \in Paths : remove_input_alias("USBC", path)) /\ UNCHANGED nonConfVars
    \/ (\E path \in Paths, wait \in {-1, 5} : set_wait_time(wait, path))
          /\ UNCHANGED nonConfVars
    \/ (\E path \in Paths : reset_config(path)) /\ UNCHANGED nonConfVars

ConfigSpec == ConfInit /\ [][ConfNext]_vars

\* A WAIT that is there and negative.
Negative(wait) == wait # Absent /\ wait < 0

\* The step just taken was set_wait_time with a negative value.
NegativeSet == cOp'[1] = "set_wait_time" /\ cOp'[3] < 0

\* C31: set_wait_time never makes the WAIT stored in a file negative: called
\* with a negative value it raises an error and leaves the files as they were,
\* and whatever it writes is not negative; read_config never returns a Config
\* whose wait_time is negative, a negative stored WAIT being rejected with an
\* error.
C31_WaitNeverNegative ==
    /\ [](cRet # <<>> => cRet.wait >= 0)
    /\ []((cOp # <<>> /\ cOp[1] = "read_config" /\ Negative(cfgFiles[cOp[2]].wait))
             => cErr # "" /\ cRet = <<>>)
    /\ [][NegativeSet => cErr' # "" /\ cfgFiles' = cfgFiles]_vars
    /\ [][cOp'[1] = "set_wait_time" =>
             \A q \in Paths : Negative(cfgFiles'[q].wait) => cfgFiles'[q] = cfgFiles[q]]_vars

\* A negative set refused after the file was read without error, and the
\* file's WAIT still the one of before.
C31_Witness ==
    /\ cOp # <<>>
    /\ cOp[1] = "set_wait_time"
    /\ cOp[3] < 0
    /\ cErr = "WAIT time can not be set to a negative value"
    /\ cfgFiles[cOp[2]].wait >= 0

\* C30: read_config(path) returns exactly the monitor aliases and the input
\* aliases that the file at path holds at the time of the call: nothing loaded
\* by an earlier config call from another path, or since deleted from the
\* file, appears in the result.
C30_ReadReturnsTheFile ==
    (cOp # <<>> /\ cOp[1] = "read_config" /\ cErr = "") =>
        /\ cRet.mon = cfgFiles[cOp[2]].mon
        /\ cRet.inp = cfgFiles[cOp[2]].inp

----------------------------------------------------------------------------
(* Capability parser: the entries of the vcp group of a capability string *)

MaxTokens == 5

\* The tokens of a vcp group: decimal numerals and the two parentheses.
Numerals == {"16", "96", "27"}
TokenAlphabet == Numerals \cup {"(", ")"}

\* int(numeral)
IntOf(t) ==
    CASE t = "15" -> 15
      [] t = "16" -> 16
      [] t = "17" -> 17
      [] t = "18" -> 18
      [] t = "27" -> 27
      [] t = "96" -> 96

IsNumeral(t) == t \notin {"(", ")"}

\* The group `16 18 96(27 15 17)`.
ExampleGroup == <<"16", "18", "96", "(", "27", "15", "17", ")">>

\* Number of parentheses open before token i.
RECURSIVE Depth(_, _)
Depth(tokens, i) ==
    IF i <= 1 THEN 0
    ELSE Depth(tokens, i - 1)
         + (IF tokens[i - 1] = "(" THEN 1 ELSE 0)
         - (IF tokens[i - 1] = ")" THEN 1 ELSE 0)

\* The grammar of a vcp group: feature codes, each optionally followed by one
\* parenthesized list of parameter codes; no list inside a list.
WellFormed(tokens) ==
    /\ Depth(tokens, Len(tokens) + 1) = 0
    /\ \A i \in 1 .. Len(tokens) :
         /\ tokens[i] = "(" => i > 1 /\ IsNumeral(tokens[i - 1]) /\ Depth(tokens, i) = 0
         /\ tokens[i] = ")" => Depth(tokens, i) = 1

Groups ==
    {t \in UNION {[1 .. n -> TokenAlphabet] : n \in 0 .. MaxTokens} : WellFormed(t)}
    \cup {ExampleGroup}

\* The entry of a feature code that no parameter list follows carries no values.
NoValues == <<-1>>

Entry(cap, values) == [cap |-> cap, values |-> values]

CapsInit ==
    /\ capTokens \in Groups
    /\ capPos = 1
    /\ capEntries = <<>>
    /\ capInList = FALSE
    /\ capPc = "parsing"
    /\ ExchIdle
    /\ CodecIdle
    /\ EnumIdle
    /\ SessIdle
    /\ BatchIdle
    /\ ConfIdle
    /\ SignalIdle

AtToken == capPc = "parsing" /\ capPos <= Len(capTokens)

\* Variant: a parameter is put in front of the ones already read.
AddValue_InFront(values, v) == <<v>> \o values

AddValue(values, v) == Append(values, v)

\* A feature code: a new entry, without values so far.
ParseCode ==
    /\ AtToken
    /\ ~capInList
    /\ IsNumeral(capTokens[capPos])
    /\ capEntries' = Append(capEntries, Entry(IntOf(capTokens[capPos]), NoValues))
    /\ capPos' = capPos + 1
    /\ UNCHANGED <<capTokens, capInList, capPc>>

\* An opening parenthesis: the list of the entry just read begins.
ParseOpen ==
    /\ AtToken
    /\ capTokens[capPos] = "("
    /\ capEntries' = [capEntries EXCEPT ![Len(capEntries)].values = <<>>]
    /\ capInList' = TRUE
    /\ capPos' = capPos + 1
    /\ UNCHANGED <<capTokens, capPc>>

\* A parameter code inside a list: one more value of the last entry.
ParseParam ==
    /\ AtToken
    /\ capInList
    /\ IsNumeral(capTokens[capPos])
    /\ capEntries' = [capEntries EXCEPT ![Len(capEntries)].values =
                         AddValue(@, IntOf(capTokens[capPos]))]
    /\ capPos' = capPos + 1
    /\ UNCHANGED <<capTokens, capInList, capPc>>

\* A closing parenthesis: the list ends.
ParseClose ==
    /\ AtToken
    /\ capTokens[capPos] = ")"
    /\ capInList' = FALSE
    /\ capPos' = capPos + 1
    /\ UNCHANGED <<capTokens, capEntries, capPc>>

\* The end of the group.
ParseEnd ==
    /\ capPc = "parsing"
    /\ capPos > Len(capTokens)
    /\ capPc' = "parsed"
    /\ UNCHANGED <<capTokens, capPos, capEntries, capInList>>

CapsNext ==
    \/ ParseCode /\ UNCHANGED nonCapVars
    \/ ParseOpen /\ UNCHANGED nonCapVars
    \/ ParseParam /\ UNCHANGED nonCapVars
    \/ ParseClose /\ UNCHANGED nonCapVars
    \/ ParseEnd /\ UNCHANGED nonCapVars

CapsSpec == CapsInit /\ [][CapsNext]_vars

\* Positions of the feature codes of a group, in the order written.
RECURSIVE CodePositions(_, _)
CodePositions(tokens, i) ==
    IF i > Len(tokens) THEN <<>>
    ELSE (IF IsNumeral(tokens[i]) /\ Depth(tokens, i) = 0 THEN <<i>> ELSE <<>>)
         \o CodePositions(tokens, i + 1)

\* The numerals from position i up to the next closing parenthesis.
RECURSIVE ListFrom(_, _)
ListFrom(tokens, i) ==
    IF i > Len(tokens) \/ tokens[i] = ")" THEN <<>>
    ELSE <<IntOf(tokens[i])>> \o ListFrom(tokens, i + 1)

\* What the text of a group declares for the feature code at position i.
Declared(tokens, i) ==
    Entry(IntOf(tokens[i]),
          IF i < Len(tokens) /\ tokens[i + 1] = "("
          THEN ListFrom(tokens, i + 2) ELSE NoValues)

\* C25: parsing a capability string yields, in the vcp group, one entry per
\* feature code in source order, and an entry followed by a parenthesized list
\* carries the parameter codes of the list in the order written; for
\* `16 18 96(27 15 17)` the entry of 96 carries 27, 15, 17 in that order and
\* the entries of 16 and 18 carry none.
C25_EntriesInSourceOrder ==
    capPc = "parsed" =>
        /\ capEntries = [k \in 1 .. Len(CodePositions(capTokens, 1)) |->
                            Declared(capTokens, CodePositions(capTokens, 1)[k])]
        /\ capTokens = ExampleGroup =>
              capEntries = <<Entry(16, NoValues), Entry(18, NoValues),
                             Entry(96, <<27, 15, 17>>)>>

C25_Witness ==
    /\ capPc = "parsed"
    /\ capTokens = ExampleGroup
    /\ capEntries[3] = Entry(96, <<27, 15, 17>>)

----------------------------------------------------------------------------
(* signal_monitor of monitorboss.impl, one step per statement, over the
   DummyVCP test double *)

\* VCPCodes.image_luminance
image_luminance == 16

\* The luminance values the monitor can hold when signal_monitor is called.
Luminances == 0 .. unknown_max_values[image_luminance]

Lookup(exc, code) == [exc |-> exc, code |-> code]

\* Variant: Feature is an enumeration with a member lum for the luminance.
Feature_lum_Member == Lookup("", image_luminance)

\* Feature.lum: Feature is a dict keyed by VCPCommand (lines 26-47), and a dict
\* has no attribute lum.
Feature_lum == Lookup("AttributeError", 0)

SignalInit ==
    /\ gLine = 122
    /\ gMon \in {0, NumMonitors}
    /\ gLum = <<>>
    /\ gErr = <<>>
    /\ gLog = <<>>
    /\ \E l \in Luminances :
         /\ current_values = [InitialValues EXCEPT ![image_luminance] = l]
         /\ gBefore = l
    /\ sPc = "off"
    /\ SessRestFresh
    /\ ExchIdle
    /\ CodecIdle
    /\ EnumIdle
    /\ BatchIdle
    /\ ConfIdle
    /\ CapsIdle

Event(what, value) == <<what, value>>

\* cfg = get_config(None) and the three waits taken from it: the configuration
\* is there, or it cannot be read and the error leaves signal_monitor.
SignalConfig ==
    /\ gLine = 122
    /\ gErr = <<>>
    /\ \E readable \in BOOLEAN :
         IF readable
         THEN gLine' = 126 /\ UNCHANGED gErr
         ELSE gErr' = <<"MonitorBossError", "config">> /\ UNCHANGED gLine
    /\ UNCHANGED <<gMon, gLum, gLog, gBefore, current_values>>

\* The value written by the set_attribute call of a line.
SignalValue(line) ==
    CASE line = 128 -> gLum[2]
      [] line = 130 -> 0
      [] line = 132 -> gLum[1]

\* lum = get_attribute(mon, Feature.lum, timeout)
SignalRead ==
    IF Feature_lum.exc # ""
    THEN /\ gErr' = <<Feature_lum.exc, "lum">>
         /\ UNCHANGED <<gLine, gLum, gLog, current_values>>
    ELSE LET e == GetAttribute(1, gMon, Feature_lum.code, current_values) IN
         IF e.err # <<>>
         THEN /\ gErr' = e.err
              /\ gLog' = Append(gLog, Event("read failed", 0))
              /\ UNCHANGED <<gLine, gLum, current_values>>
         ELSE /\ gLum' = e.ret
              /\ gLog' = Append(gLog, Event("read", e.ret[1]))
              /\ gLine' = gLine + 1
              /\ UNCHANGED <<gErr, current_values>>

\* sleep(ddc_wait) / sleep(visible_wait)
SignalSleep ==
    /\ gLog' = Append(gLog, Event("sleep", 0))
    /\ gLine' = gLine + 1
    /\ UNCHANGED <<gLum, gErr, current_values>>

\* set_attribute(mon, Feature.lum, ..., timeout)
SignalSet ==
    IF Feature_lum.exc # ""
    THEN /\ gErr' = <<Feature_lum.exc, "lum">>
         /\ UNCHANGED <<gLine, gLum, gLog, current_values>>
    ELSE LET e == SetAttribute(1, gMon, Feature_lum.code, SignalValue(gLine), current_values) IN
         /\ current_values' = e.store
         /\ gLog' = IF e.log # <<>> THEN Append(gLog, Event("write", SignalValue(gLine)))
                    ELSE gLog
         /\ IF e.err # <<>>
            THEN gErr' = e.err /\ UNCHANGED gLine
            ELSE gLine' = gLine + 1 /\ UNCHANGED gErr
         /\ UNCHANGED gLum

\* The statement of lines 126 to 132 that is next.
SignalStatement ==
    /\ gLine \in 126 .. 132
    /\ gErr = <<>>
    /\ CASE gLine = 126 -> SignalRead
         [] gLine \in {127, 129, 131} -> SignalSleep
         [] OTHER -> SignalSet
    /\ UNCHANGED <<gMon, gBefore>>

SignalNext ==
    \/ SignalConfig /\ UNCHANGED nonSigVars
    \/ SignalStatement /\ UNCHANGED nonSigVars

SignalSpec == SignalInit /\ [][SignalNext]_vars

\* signal_monitor is over, having got past the configuration.
SignalOver == gLine = 133 \/ (gErr # <<>> /\ gLine >= 126)

Attempts(log) == SelectSeq(log, LAMBDA ev : ev[1] \in {"read", "read failed"})
Writes(log) == SelectSeq(log, LAMBDA ev : ev[1] = "write")

\* C32: signal_monitor reads the luminance once and then writes, in this order
\* and with a wait before each, the maximum, 0 and the value it read; when
\* every step succeeds the luminance at the end is the one of before the call,
\* and no luminance is written when the read fails.
C32_SignalCyclesLuminance ==
    SignalOver =>
        /\ Len(Attempts(gLog)) = 1
        /\ gLum = <<>> => Writes(gLog) = <<>>
        /\ gErr = <<>> =>
              /\ gLog = <<Event("read", gLum[1]), Event("sleep", 0),
                          Event("write", gLum[2]), Event("sleep", 0),
                          Event("write", 0), Event("sleep", 0),
                          Event("write", gLum[1])>>
              /\ gLum[1] = gBefore
              /\ current_values[image_luminance] = gBefore

====
